---- MODULE Spec2Model ----
(***************************************************************************)
(* Model of the CSV document repository (backend/csv_repository.py).       *)
(*                                                                         *)
(* The store is the sequence of rows of the CSV file, each row holding the *)
(* values as they are written to the file.  A Python dict is a function    *)
(* whose DOMAIN is its key set.  A Python str is a sequence of characters; *)
(* the characters line feed, carriage return and backslash are the tokens  *)
(* LF, CR and BS.  A timestamp string is the second it names, and the      *)
(* empty string in a timestamp column is EmptyTs.  The files beside the CSV *)
(* file (the content files, the temporary file of a rewrite) are disk, a    *)
(* function from the paths that exist to what each file holds.             *)
(***************************************************************************)
EXTENDS Integers, Sequences, FiniteSets, TLC

VARIABLES store, now, last, disk

vars == <<store, now, last, disk>>

(* ---------------------------------------------------------------- bounds *)
\* Last second of the clock.  Every call reads the clock later than the call
\* before it, so this is also the number of calls of a behaviour.
MaxTime == 3
\* Longest list handed to bulk_create.
MaxBatch == 2
\* Longest string the escaping round trip is tried on.
MaxLen == 3

(* ------------------------------------------------------------- constants *)
LF == "LF"
CR == "CR"
BS == "BS"
SP == " "

NEWLINE_ESCAPE == <<BS, "n">>
CARRIAGE_RETURN_ESCAPE == <<BS, "r">>

\* len(content_value) > 500
PathSanityLimit == 500

\* The '' every column of a new document starts with, in a timestamp column.
EmptyTs == 0

\* self.fieldnames, restricted to one column of each kind the code treats
\* differently: the key, a column copied as is (source), an escaped free-text
\* column (titre), the content path, the status and the three timestamps.
fieldnames == {"id", "source", "titre", "content", "summary", "themes",
               "applicability", "keywords", "processing_status",
               "created_at", "updated_at", "processed"}

text_fields == {"titre", "summary", "applicability"}

\* The fields that take a list.
list_fields == {"keywords", "themes"}

\* A Python list is the sequence of its items between the tokens [ and ];
\* None, where a list is expected, is the token None alone.
ListOf(items) == <<"[">> \o items \o <<"]">>
IsList(value) == value # <<>> /\ Head(value) = "["
Items(value) == SubSeq(value, 2, Len(value) - 1)
PyNone == <<"None">>

\* document = {field: '' for field in self.fieldnames}
EmptyDocument ==
  [f \in fieldnames |->
     CASE f \in {"titre", "content", "summary", "themes", "applicability",
                 "keywords"} -> <<>>
       [] f \in {"created_at", "updated_at", "processed"} -> EmptyTs
       [] OTHER -> ""]

(* ------------------------------------------------------- string functions *)
Whitespace == {SP, LF, CR}

RECURSIVE LStrip(_)
LStrip(s) ==
  IF s # <<>> /\ Head(s) \in Whitespace THEN LStrip(Tail(s)) ELSE s

RECURSIVE RStrip(_)
RStrip(s) ==
  IF s # <<>> /\ s[Len(s)] \in Whitespace
  THEN RStrip(SubSeq(s, 1, Len(s) - 1))
  ELSE s

\* str.strip()
Strip(s) == RStrip(LStrip(s))

\* str.replace(old, new): the occurrences of old, found left to right and not
\* overlapping, are replaced by new.
RECURSIVE Replace(_, _, _)
Replace(s, old, new) ==
  IF Len(s) < Len(old) THEN s
  ELSE IF SubSeq(s, 1, Len(old)) = old
       THEN new \o Replace(SubSeq(s, Len(old) + 1, Len(s)), old, new)
       ELSE <<Head(s)>> \o Replace(Tail(s), old, new)

_escape_newlines(text) ==
  Replace(Replace(text, <<LF>>, NEWLINE_ESCAPE), <<CR>>, CARRIAGE_RETURN_ESCAPE)

_unescape_newlines(text) ==
  Replace(Replace(text, NEWLINE_ESCAPE, <<LF>>), CARRIAGE_RETURN_ESCAPE, <<CR>>)

(* ------------------------------------------------------------ dict helpers *)
\* {**a, **b}, and a.update(b)
Merge(a, b) ==
  [k \in (DOMAIN a) \cup (DOMAIN b) |-> IF k \in DOMAIN b THEN b[k] ELSE a[k]]

\* d.get(k, default)
Get(d, k, default) == IF k \in DOMAIN d THEN d[k] ELSE default

\* d.get(k) used as a condition: the key is there and its value is not empty.
Truthy(d, k) == k \in DOMAIN d /\ d[k] # EmptyDocument[k]

(* ------------------------------------------------- _prepare_doc_for_write *)
\* PrepareRaises that also rejects a content value longer than the limit.
PrepareRaisesOversized(doc_data) ==
  \/ ~Truthy(doc_data, "id")
  \/ Truthy(doc_data, "content") /\ Len(doc_data["content"]) > PathSanityLimit

\* if 'id' not in doc_data or not doc_data['id']: raise ValueError
PrepareRaises(doc_data) == ~Truthy(doc_data, "id")

\* for key in text_fields: doc_data[key] = self._escape_newlines(value.strip())
EscapeTextFields(doc_data) ==
  [k \in DOMAIN doc_data |->
     IF k \in text_fields THEN _escape_newlines(Strip(doc_data[k]))
     ELSE doc_data[k]]

\* ", ".join(items)
RECURSIVE Join(_)
Join(items) ==
  IF Len(items) <= 1 THEN items
  ELSE <<Head(items), ", ">> \o Join(Tail(items))

\* if 'keywords' in doc_data and isinstance(doc_data['keywords'], list): join
\* if 'themes' in doc_data and isinstance(doc_data['themes'], list): join
FormatLists(doc_data) ==
  [k \in DOMAIN doc_data |->
     IF k \in list_fields /\ IsList(doc_data[k]) THEN Join(Items(doc_data[k]))
     ELSE doc_data[k]]

\* csv.DictWriter writes None as the empty string.
writerow(doc) ==
  [k \in DOMAIN doc |->
     IF k \in list_fields /\ doc[k] = PyNone THEN <<>> ELSE doc[k]]

writerows(documents) == [i \in 1..Len(documents) |-> writerow(documents[i])]

\* CheckContent without the length test.
CheckContentKeep(doc_data) == doc_data

\* A content value longer than the limit is replaced by ''.
CheckContent(doc_data) ==
  IF Truthy(doc_data, "content")
  THEN [doc_data EXCEPT !["content"] =
          IF Len(@) > PathSanityLimit THEN <<>> ELSE @]
  ELSE doc_data

\* document['created_at'] = document.get('created_at', now_str)
CreatedAt(document, now_str) == Get(document, "created_at", now_str)

\* SetProcessed that never stamps.
SetProcessedNever(document, now_str) == document

\* SetProcessed that stamps whenever the status is processed.
SetProcessedAlways(document, now_str) ==
  IF document["processing_status"] = "processed"
  THEN [document EXCEPT !["processed"] = now_str]
  ELSE document

\* if document['processing_status'] == 'processed' and not document.get('processed')
SetProcessed(document, now_str) ==
  IF document["processing_status"] = "processed" /\ ~Truthy(document, "processed")
  THEN [document EXCEPT !["processed"] = now_str]
  ELSE document

\* The document returned when no ValueError is raised.
_prepare_doc_for_write(doc_data, now_str) ==
  LET prepared == FormatLists(CheckContent(EscapeTextFields(doc_data)))
      document == Merge(EmptyDocument, prepared)
      stamped  == [document EXCEPT
                     !["processing_status"] =
                         Get(prepared, "processing_status", "pending"),
                     !["created_at"] = CreatedAt(document, now_str),
                     !["updated_at"] = now_str]
  IN SetProcessed(stamped, now_str)

(* ------------------------------------------------------------ reading *)
\* _read_all_documents(parse=False): the rows as stored.
_read_all_documents(file) == file

\* _parse_doc: the text columns are unescaped when not empty.
_parse_doc(doc) ==
  [k \in DOMAIN doc |->
     IF k \in text_fields /\ doc[k] # <<>> THEN _unescape_newlines(doc[k])
     ELSE doc[k]]

\* The indexes of the rows of a list of documents that carry an id.
RowsWithId(documents, document_id) ==
  {i \in 1..Len(documents) : documents[i]["id"] = document_id}

Min(S) == CHOOSE x \in S : \A y \in S : x <= y

\* exists: any(doc.get('id') == document_id for doc in reader)
exists(file, document_id) == RowsWithId(file, document_id) # {}

None == [none |-> TRUE]

\* get_by_id: the first parsed row with the id, or None.
get_by_id(file, document_id) ==
  LET documents == _read_all_documents(file)
      hits == RowsWithId(documents, document_id)
  IN IF hits = {} THEN None ELSE _parse_doc(documents[Min(hits)])

(* --------------------------------------------------------------- inputs *)
\* The ids the callers name.
Ids == {"a", "b"}

\* A timestamp a caller passes in, distinct from every reading of the clock.
CallerTs == MaxTime + 1

Path1 == <<"p", "1">>
LongestPath == [i \in 1..PathSanityLimit |-> "x"]
RawText == [i \in 1..(PathSanityLimit + 1) |-> "x"]

TitreBreaks == <<"a", LF, CR, "b">>
TitreBackslashN == <<BS, "n">>
TitrePadded == <<SP, "a">>

\* The documents handed to create and bulk_create.
Docs ==
  { [id |-> "a", source |-> "JORF", titre |-> TitreBreaks, content |-> Path1],
    [id |-> "b", titre |-> TitreBackslashN, processing_status |-> "processed"],
    [id |-> "a", source |-> "EURLEX", titre |-> TitrePadded,
     content |-> RawText],
    [id |-> "b", content |-> LongestPath, created_at |-> CallerTs,
     processing_status |-> "error"],
    [source |-> "JORF", titre |-> <<"a">>],
    [id |-> "", source |-> "JORF"] }

RECURSIVE SeqsUpTo(_, _)
SeqsUpTo(S, n) ==
  IF n = 0 THEN {<<>>}
  ELSE LET shorter == SeqsUpTo(S, n - 1)
       IN shorter \cup {Append(q, x) : q \in shorter, x \in S}

Batches == SeqsUpTo(Docs, MaxBatch)

\* The partial updates handed to update_document.
Updates ==
  { [processing_status |-> "processed"],
    [processing_status |-> "error"],
    [processing_status |-> "pending"],
    [processed |-> CallerTs],
    [processed |-> EmptyTs],
    [titre |-> <<"x", LF, "y">>],
    [source |-> "other", id |-> "zz", created_at |-> CallerTs],
    [content |-> RawText],
    [id |-> ""] }

(* ------------------------------------------------------------ bulk_create *)
\* BulkStep without the test against existing_ids.
BulkStepNoDedup(acc, doc_data, now_str) ==
  LET doc_id == Get(doc_data, "id", "") IN
  IF doc_id = "" THEN [acc EXCEPT !.skipped = @ + 1]
  ELSE [acc EXCEPT
          !.created_docs = Append(@, _prepare_doc_for_write(doc_data, now_str)),
          !.existing_ids = @ \cup {doc_id}]

\* BulkStep that passes over a stored id without counting it.
BulkStepNoCount(acc, doc_data, now_str) ==
  LET doc_id == Get(doc_data, "id", "") IN
  IF doc_id = "" THEN [acc EXCEPT !.skipped = @ + 1]
  ELSE IF doc_id \in acc.existing_ids THEN acc
  ELSE [acc EXCEPT
          !.created_docs = Append(@, _prepare_doc_for_write(doc_data, now_str)),
          !.existing_ids = @ \cup {doc_id}]

\* The body of the loop over docs_data, for one doc_data.
BulkStep(acc, doc_data, now_str) ==
  LET doc_id == Get(doc_data, "id", "") IN
  IF doc_id = "" THEN [acc EXCEPT !.skipped = @ + 1]
  ELSE IF doc_id \in acc.existing_ids THEN [acc EXCEPT !.skipped = @ + 1]
  ELSE IF PrepareRaises(doc_data) THEN [acc EXCEPT !.skipped = @ + 1]
  ELSE [acc EXCEPT
          !.created_docs = Append(@, _prepare_doc_for_write(doc_data, now_str)),
          !.existing_ids = @ \cup {doc_id}]

RECURSIVE BulkLoop(_, _, _)
BulkLoop(acc, docs_data, now_str) ==
  IF docs_data = <<>> THEN acc
  ELSE BulkLoop(BulkStep(acc, Head(docs_data), now_str), Tail(docs_data), now_str)

\* bulk_create: the file afterwards and the pair returned. write_fails is
\* _write_all_documents raising.
bulk_create(file, docs_data, now_str, write_fails) ==
  LET existing_ids == {doc["id"] : doc \in
                         {_read_all_documents(file)[i] : i \in 1..Len(file)}}
      acc == BulkLoop([created_docs |-> <<>>, skipped |-> 0,
                       existing_ids |-> existing_ids], docs_data, now_str)
      all_docs == _read_all_documents(file) \o acc.created_docs
  IN IF acc.created_docs # <<>>
     THEN IF write_fails
          THEN [file |-> file, created |-> 0,
                skipped |-> acc.skipped + Len(acc.created_docs), writes |-> TRUE]
          ELSE [file |-> writerows(all_docs), created |-> Len(acc.created_docs),
                skipped |-> acc.skipped, writes |-> TRUE]
     ELSE [file |-> file, created |-> 0, skipped |-> acc.skipped,
           writes |-> FALSE]

(* ----------------------------------------------------------------- create *)
\* create: the file afterwards and whether a document (not None) is returned.
\* write_fails is the append raising.
create(file, doc_data, now_str, write_fails) ==
  IF exists(file, Get(doc_data, "id", ""))
  THEN [file |-> file, returned |-> FALSE, writes |-> FALSE]
  ELSE IF "id" \notin DOMAIN doc_data
  THEN [file |-> file, returned |-> FALSE, writes |-> FALSE]
  ELSE IF PrepareRaises(doc_data)
  THEN [file |-> file, returned |-> FALSE, writes |-> FALSE]
  ELSE IF write_fails
  THEN [file |-> file, returned |-> FALSE, writes |-> TRUE]
  ELSE [file |-> Append(file, writerow(_prepare_doc_for_write(doc_data,
                                                              now_str))),
        returned |-> TRUE, writes |-> TRUE]

(* -------------------------------------------------------- update_document *)
\* CopyPrepared that copies id and created_at too.
CopyPreparedAll(doc, prepared_updates) ==
  [k \in DOMAIN doc |->
     IF k \in fieldnames /\ k \in DOMAIN prepared_updates
     THEN prepared_updates[k]
     ELSE doc[k]]

\* for key, value in prepared_updates.items():
\*     if key not in ['id', 'created_at'] and key in self.fieldnames: doc[key] = value
CopyPrepared(doc, prepared_updates) ==
  [k \in DOMAIN doc |->
     IF k \notin {"id", "created_at"} /\ k \in fieldnames
        /\ k \in DOMAIN prepared_updates
     THEN prepared_updates[k]
     ELSE doc[k]]

\* The row as update_document leaves it: now1 is the clock read inside
\* _prepare_doc_for_write, now2 the one read after it.
UpdatedRow(doc, updates, now1, now2) ==
  LET prepared_updates == _prepare_doc_for_write(Merge(doc, updates), now1)
      copied == CopyPrepared(doc, prepared_updates)
      stamped == [copied EXCEPT !["updated_at"] = now2]
  IN SetProcessed(stamped, now2)

\* update_document that takes the first row when no row has the id.
update_documentAnyRow(file, document_id, updates, now1, now2, write_fails) ==
  LET documents == _read_all_documents(file)
      hits == RowsWithId(documents, document_id)
  IN IF documents = <<>>
     THEN [file |-> file, returned |-> FALSE, writes |-> FALSE]
     ELSE LET i == IF hits = {} THEN 1 ELSE Min(hits)
              doc == documents[i]
          IN IF PrepareRaises(Merge(doc, updates))
             THEN [file |-> file, returned |-> FALSE, writes |-> FALSE]
             ELSE IF write_fails
             THEN [file |-> file, returned |-> FALSE, writes |-> TRUE]
             ELSE [file |-> writerows([documents EXCEPT
                               ![i] = UpdatedRow(doc, updates, now1, now2)]),
                   returned |-> TRUE, writes |-> TRUE]

\* update_document: the file afterwards and the boolean returned.
update_document(file, document_id, updates, now1, now2, write_fails) ==
  LET documents == _read_all_documents(file)
      hits == RowsWithId(documents, document_id)
  IN IF hits = {} THEN [file |-> file, returned |-> FALSE, writes |-> FALSE]
     ELSE LET i == Min(hits)
              doc == documents[i]
          IN IF PrepareRaises(Merge(doc, updates))
             THEN [file |-> file, returned |-> FALSE, writes |-> FALSE]
             ELSE IF write_fails
             THEN [file |-> file, returned |-> FALSE, writes |-> TRUE]
             ELSE [file |-> writerows([documents EXCEPT
                               ![i] = UpdatedRow(doc, updates, now1, now2)]),
                   returned |-> TRUE, writes |-> TRUE]

(* ------------------------------------------------------- delete_documents *)
\* Remaining that stops looking after the first row it drops.
RECURSIVE RemainingStopsAtFirst(_, _)
RemainingStopsAtFirst(documents, id_set) ==
  IF documents = <<>> THEN <<>>
  ELSE IF Head(documents)["id"] \in id_set
       THEN Tail(documents)
       ELSE <<Head(documents)>> \o RemainingStopsAtFirst(Tail(documents), id_set)

\* remaining = [doc for doc in documents if doc.get('id') not in id_set]
RECURSIVE Remaining(_, _)
Remaining(documents, id_set) ==
  IF documents = <<>> THEN <<>>
  ELSE IF Head(documents)["id"] \in id_set
       THEN Remaining(Tail(documents), id_set)
       ELSE <<Head(documents)>> \o Remaining(Tail(documents), id_set)

\* delete_documents: the file afterwards, the count returned, and whether the
\* IOError of a failed rewrite leaves the call instead of a count.
delete_documents(file, id_set, write_fails) ==
  LET documents == _read_all_documents(file)
      remaining == Remaining(documents, id_set)
      deleted == Len(documents) - Len(remaining)
  IN IF id_set = {}
     THEN [file |-> file, deleted |-> 0, raised |-> FALSE, writes |-> FALSE]
     ELSE IF deleted > 0 /\ write_fails
     THEN [file |-> file, deleted |-> 0, raised |-> TRUE, writes |-> TRUE]
     ELSE [file |-> remaining, deleted |-> deleted, raised |-> FALSE,
           writes |-> deleted > 0]

(* ---------------------------------------------------------------- actions *)
\* A content file: what it holds, and whether open() and read() succeed.
ReadableFile(text) == [readable |-> TRUE, text |-> text]
UnreadableFile == [readable |-> FALSE, text |-> <<>>]

\* What the generation calls of one process_document do: each raises or
\* returns the text (the labels, for the themes).
NoRun ==
  [summary |-> [raises |-> TRUE, text |-> <<>>],
   applicability |-> [raises |-> TRUE, text |-> <<>>],
   themes |-> [raises |-> TRUE, themes |-> <<>>]]

\* What the last call was, what it was given, what it returned, and the file
\* before it.
NoCall ==
  [op |-> "none", docs |-> <<>>, id |-> "", updates |-> <<>>, ids |-> {},
   write_fails |-> FALSE, created |-> 0, skipped |-> 0, returned |-> FALSE,
   deleted |-> 0, raised |-> FALSE, writes |-> FALSE, pre |-> <<>>,
   skip |-> 0, limit |-> 0, documents |-> <<>>, result |-> <<>>,
   step |-> "", target |-> <<>>, failed |-> FALSE, llm |-> NoRun]

\* No file beside the CSV file.
NoFiles == <<>>

\* __init__ on a path with no file: _create_csv_file writes the header alone.
Init ==
  /\ store = <<>>
  /\ now = 0
  /\ disk = NoFiles
  /\ last = NoCall

Create ==
  /\ last.op = "none"
  /\ now < MaxTime
  /\ UNCHANGED disk
  /\ \E doc_data \in Docs, write_fails \in BOOLEAN :
       LET r == create(store, doc_data, now + 1, write_fails) IN
       /\ write_fails => r.writes
       /\ store' = r.file
       /\ now' = now + 1
       /\ last' = [NoCall EXCEPT !.op = "create", !.docs = <<doc_data>>,
                     !.write_fails = write_fails, !.returned = r.returned,
                     !.writes = r.writes, !.pre = store]

BulkCreate ==
  /\ last.op = "none"
  /\ now < MaxTime
  /\ UNCHANGED disk
  /\ \E docs_data \in Batches, write_fails \in BOOLEAN :
       LET r == bulk_create(store, docs_data, now + 1, write_fails) IN
       /\ write_fails => r.writes
       /\ store' = r.file
       /\ now' = now + 1
       /\ last' = [NoCall EXCEPT !.op = "bulk_create", !.docs = docs_data,
                     !.write_fails = write_fails, !.created = r.created,
                     !.skipped = r.skipped, !.writes = r.writes,
                     !.pre = store]

UpdateDocument ==
  /\ last.op = "none"
  /\ now < MaxTime
  /\ UNCHANGED disk
  /\ \E document_id \in Ids, updates \in Updates, write_fails \in BOOLEAN :
       \E now2 \in {now + 1, now + 2} :
         LET r == update_document(store, document_id, updates, now + 1, now2,
                                  write_fails) IN
         /\ now2 <= MaxTime
         /\ write_fails => r.writes
         /\ store' = r.file
         /\ now' = now2
         /\ last' = [NoCall EXCEPT !.op = "update_document", !.id = document_id,
                       !.updates = updates, !.write_fails = write_fails,
                       !.returned = r.returned, !.writes = r.writes,
                       !.pre = store]

DeleteDocuments ==
  /\ last.op = "none"
  /\ now < MaxTime
  /\ UNCHANGED disk
  /\ \E id_set \in SUBSET Ids, write_fails \in BOOLEAN :
       LET r == delete_documents(store, id_set, write_fails) IN
       /\ write_fails => r.writes
       /\ store' = r.file
       /\ now' = now + 1
       /\ last' = [NoCall EXCEPT !.op = "delete_documents", !.ids = id_set,
                     !.write_fails = write_fails, !.deleted = r.deleted,
                     !.raised = r.raised, !.writes = r.writes,
                     !.pre = store]

\* The caller takes the result; the next call starts after it (the calls are
\* made one at a time).
Return ==
  /\ last.op # "none"
  /\ last' = NoCall
  /\ UNCHANGED <<store, now, disk>>

Next == Create \/ BulkCreate \/ UpdateDocument \/ DeleteDocuments \/ Return

Spec == Init /\ [][Next]_vars

(* ------------------------------------------------------------- the reads *)
\* Longest list handed to bulk_create to build the file that is read.
MaxRows == 3
\* Largest skip and largest limit of a call.
MaxPage == 3

\* A created_at column that strptime rejects in both formats.
UnparsableTs == -1
\* datetime.min, earlier than every second the clock or a caller names.
DatetimeMin == 0
\* datetime.max
DatetimeMax == CallerTs + 1

\* strptime(value, DATE_FORMAT) succeeds: the column names a second.
Parses(value) == value >= 1

\* safe_sort_key that puts a str or None at datetime.max.
safe_sort_keyMax(doc) ==
  LET created_at == doc["created_at"]
  IN IF ~Parses(created_at) THEN DatetimeMax ELSE created_at

\* safe_sort_key of get_all: a created_at that is still a str has datetime.min.
safe_sort_key(doc) ==
  LET created_at == doc["created_at"]
  IN IF ~Parses(created_at) THEN DatetimeMin ELSE created_at

\* list.sort(key=safe_sort_key, reverse=True) is stable: a document goes after
\* every document already placed whose key is not smaller.
RECURSIVE InsertDesc(_, _)
InsertDesc(sorted, doc) ==
  IF sorted = <<>> THEN <<doc>>
  ELSE IF safe_sort_key(Head(sorted)) >= safe_sort_key(doc)
       THEN <<Head(sorted)>> \o InsertDesc(Tail(sorted), doc)
       ELSE <<doc>> \o sorted

RECURSIVE SortDesc(_, _)
SortDesc(sorted, documents) ==
  IF documents = <<>> THEN sorted
  ELSE SortDesc(InsertDesc(sorted, Head(documents)), Tail(documents))

\* documents[start:stop] for 0 <= start and 0 <= stop.
Slice(documents, start, stop) ==
  LET end == IF stop < Len(documents) THEN stop ELSE Len(documents)
  IN IF start >= end THEN <<>> ELSE SubSeq(documents, start + 1, end)

\* The rows of the file as _read_all_documents(parse=True) gives them.
ParsedDocuments(file) ==
  LET rows == _read_all_documents(file)
  IN [i \in 1..Len(rows) |-> _parse_doc(rows[i])]

\* get_all: the sorted list and the page of it that is returned.
get_all(file, skip, limit) ==
  LET documents == SortDesc(<<>>, ParsedDocuments(file))
  IN [documents |-> documents,
      result |-> Slice(documents, skip, skip + limit)]

\* os.path.exists(path)
path_exists(files, path) == path \in DOMAIN files

\* The test of get_pending_for_processing without os.path.exists.
IsPendingWithContentAnyFile(files, doc) ==
  /\ doc["processing_status"] = "pending"
  /\ doc["content"] # <<>>

\* The test of the list comprehension of get_pending_for_processing.
IsPendingWithContent(files, doc) ==
  /\ doc["processing_status"] = "pending"
  /\ doc["content"] # <<>>
  /\ path_exists(files, doc["content"])

\* get_pending_for_processing: pending[:limit]
get_pending_for_processing(file, files, limit) ==
  LET pending == SelectSeq(ParsedDocuments(file),
                           LAMBDA doc : IsPendingWithContent(files, doc))
  IN Slice(pending, 0, limit)

ReadIds == {"a", "b", "c"}
Path2 == <<"p", "2">>
ContentPaths == {Path1, Path2}
\* What a content file holds.
ContentText == <<"t">>

\* The documents the file that is read was made of.
ReadDocs ==
  { [id |-> "a", content |-> Path1],
    [id |-> "a", content |-> Path2, created_at |-> 2],
    [id |-> "a", created_at |-> 1, processing_status |-> "processed",
     content |-> Path1],
    [id |-> "b", created_at |-> 1],
    [id |-> "b", created_at |-> UnparsableTs, content |-> Path1],
    [id |-> "b", created_at |-> 2, content |-> Path2,
     processing_status |-> "error"],
    [id |-> "c", created_at |-> 2, content |-> Path1],
    [id |-> "c", created_at |-> 1, content |-> Path2] }

\* The files bulk_create leaves.
ReadFiles ==
  {bulk_create(<<>>, docs_data, 1, FALSE).file :
     docs_data \in SeqsUpTo(ReadDocs, MaxRows)}

ReadInit ==
  /\ store \in ReadFiles
  /\ now = 1
  /\ disk \in {[p \in S |-> ReadableFile(ContentText)] :
                 S \in SUBSET ContentPaths}
  /\ last = NoCall

GetAll ==
  /\ last.op = "none"
  /\ \E skip \in 0..MaxPage, limit \in 0..MaxPage :
       LET r == get_all(store, skip, limit) IN
       last' = [NoCall EXCEPT !.op = "get_all", !.skip = skip,
                  !.limit = limit, !.documents = r.documents,
                  !.result = r.result, !.pre = store]
  /\ UNCHANGED <<store, now, disk>>

GetPendingForProcessing ==
  /\ last.op = "none"
  /\ \E limit \in 0..MaxPage :
       last' = [NoCall EXCEPT !.op = "get_pending_for_processing",
                  !.limit = limit,
                  !.result = get_pending_for_processing(store, disk, limit),
                  !.pre = store]
  /\ UNCHANGED <<store, now, disk>>

\* The scraper saves a content file.
ContentFileSaved ==
  /\ last.op = "none"
  /\ \E path \in ContentPaths \ DOMAIN disk :
       disk' = [p \in DOMAIN disk \cup {path} |->
                  ReadableFile(ContentText)]
  /\ UNCHANGED <<store, now, last>>

\* A content file goes missing.
ContentFileRemoved ==
  /\ last.op = "none"
  /\ \E path \in DOMAIN disk :
       disk' = [p \in DOMAIN disk \ {path} |-> disk[p]]
  /\ UNCHANGED <<store, now, last>>

ReadNext ==
  GetAll \/ GetPendingForProcessing \/ ContentFileSaved \/ ContentFileRemoved
    \/ Return

SpecRead == ReadInit /\ [][ReadNext]_vars

(* ------------------------------------- _write_all_documents, step by step *)
\* The path mkstemp gives, in the directory of the CSV file.
temp_file == <<"t", "m", "p">>

\* The files bulk_create leaves on an empty store.
WriteFiles == {bulk_create(<<>>, docs_data, 1, FALSE).file : docs_data \in Batches}

WriteInit ==
  /\ store \in WriteFiles
  /\ now = 1
  /\ disk = NoFiles
  /\ last = NoCall

\* The finally clause that leaves the temporary file where it is.
RemoveTempSkipped(files) == files

\* finally: if temp_file and os.path.exists(temp_file): os.remove(temp_file)
RemoveTemp(files) == [p \in DOMAIN files \ {temp_file} |-> files[p]]

\* bulk_create reaches _write_all_documents(all_docs).
BulkCreateWrites ==
  /\ last.op = "none"
  /\ \E docs_data \in Batches :
       LET r == bulk_create(store, docs_data, now + 1, FALSE) IN
       /\ r.writes
       /\ last' = [NoCall EXCEPT !.op = "bulk_create", !.docs = docs_data,
                     !.created = r.created, !.skipped = r.skipped,
                     !.writes = TRUE, !.pre = store, !.target = r.file,
                     !.step = "mkstemp"]
  /\ now' = now + 1
  /\ UNCHANGED <<store, disk>>

\* update_document reaches _write_all_documents(documents).
UpdateDocumentWrites ==
  /\ last.op = "none"
  /\ \E document_id \in Ids, updates \in Updates :
       LET r == update_document(store, document_id, updates, now + 1, now + 1,
                                FALSE) IN
       /\ r.writes
       /\ last' = [NoCall EXCEPT !.op = "update_document", !.id = document_id,
                     !.updates = updates, !.returned = r.returned,
                     !.writes = TRUE, !.pre = store, !.target = r.file,
                     !.step = "mkstemp"]
  /\ now' = now + 1
  /\ UNCHANGED <<store, disk>>

\* delete_documents reaches _write_all_documents(remaining).
DeleteDocumentsWrites ==
  /\ last.op = "none"
  /\ \E id_set \in SUBSET Ids :
       LET r == delete_documents(store, id_set, FALSE) IN
       /\ r.writes
       /\ last' = [NoCall EXCEPT !.op = "delete_documents", !.ids = id_set,
                     !.deleted = r.deleted, !.writes = TRUE, !.pre = store,
                     !.target = r.file, !.step = "mkstemp"]
  /\ now' = now + 1
  /\ UNCHANGED <<store, disk>>

\* tempfile.mkstemp(suffix='.csv', dir=...) creates the empty temporary file.
Mkstemp ==
  /\ last.step = "mkstemp"
  /\ disk' = [p \in DOMAIN disk \cup {temp_file} |->
                IF p = temp_file THEN <<>> ELSE disk[p]]
  /\ last' = [last EXCEPT !.step = "writerows"]
  /\ UNCHANGED <<store, now>>

\* writer.writerows(documents), one row at a time.
WriteRow ==
  /\ last.step = "writerows"
  /\ Len(disk[temp_file]) < Len(last.target)
  /\ disk' = [disk EXCEPT ![temp_file] =
                Append(@, last.target[Len(@) + 1])]
  /\ UNCHANGED <<store, now, last>>

\* The with block ends: the temporary file is complete and closed.
CloseTemp ==
  /\ last.step = "writerows"
  /\ Len(disk[temp_file]) = Len(last.target)
  /\ last' = [last EXCEPT !.step = "move"]
  /\ UNCHANGED <<store, now, disk>>

\* shutil.move: os.rename(src, real_dst) succeeds.
MoveRenames ==
  /\ last.step = "move"
  /\ store' = disk[temp_file]
  /\ disk' = RemoveTemp(disk)
  /\ last' = [last EXCEPT !.step = "returned"]
  /\ UNCHANGED now

\* shutil.move: os.rename raises OSError (the destination exists on a platform
\* whose rename does not replace it, or the rename is refused), and
\* copy_function(src, real_dst) opens the CSV file for writing, emptying it.
MoveCopies ==
  /\ last.step = "move"
  /\ store' = <<>>
  /\ last' = [last EXCEPT !.step = "copy"]
  /\ UNCHANGED <<now, disk>>

\* The copy goes on.
CopyRow ==
  /\ last.step = "copy"
  /\ Len(store) < Len(disk[temp_file])
  /\ store' = Append(store, disk[temp_file][Len(store) + 1])
  /\ UNCHANGED <<now, last, disk>>

\* The copy is complete: os.unlink(src).
CopyDone ==
  /\ last.step = "copy"
  /\ Len(store) = Len(disk[temp_file])
  /\ disk' = RemoveTemp(disk)
  /\ last' = [last EXCEPT !.step = "returned"]
  /\ UNCHANGED <<store, now>>

\* What the caller of the operation gets when _write_all_documents raised:
\* bulk_create's and update_document's except Exception clauses return, and
\* delete_documents has no handler.
AfterRaise(call) ==
  IF call.op = "bulk_create"
  THEN [call EXCEPT !.failed = TRUE, !.created = 0,
                    !.skipped = call.skipped + call.created,
                    !.step = "returned"]
  ELSE IF call.op = "update_document"
  THEN [call EXCEPT !.failed = TRUE, !.returned = FALSE, !.step = "returned"]
  ELSE [call EXCEPT !.failed = TRUE, !.deleted = 0, !.raised = TRUE,
                    !.step = "returned"]

\* mkstemp, a write, the rename or the copy raises IOError: the except clause
\* raises it again and the finally clause removes the temporary file.
WriteRaises ==
  /\ last.step \in {"mkstemp", "writerows", "move", "copy"}
  /\ disk' = RemoveTemp(disk)
  /\ last' = AfterRaise(last)
  /\ UNCHANGED <<store, now>>

\* The process is stopped in the middle of the rewrite.
Interrupted ==
  /\ last.step \in {"mkstemp", "writerows", "move", "copy"}
  /\ last' = [last EXCEPT !.step = "interrupted"]
  /\ UNCHANGED <<store, now, disk>>

WriteNext ==
  \/ BulkCreateWrites \/ UpdateDocumentWrites \/ DeleteDocumentsWrites
  \/ Mkstemp \/ WriteRow \/ CloseTemp \/ MoveRenames \/ MoveCopies
  \/ CopyRow \/ CopyDone \/ WriteRaises \/ Interrupted

SpecWrite == WriteInit /\ [][WriteNext]_vars

(* ------------------------------------------------ _classify_applicability *)
\* Longest response of the model that is tried.
MaxResponse == 4

\* A response is a sequence of tokens: a word or a name of the vocabulary, a
\* slash, a double quote, a space.
APPLICABILITY_CATEGORIES ==
  [information |->
     <<"Directive européenne", "Circulaire", "Instruction", "Normes",
       "Communiqué", "Avis", "Recommandation",
       "Décision ou résumé de décisions", "Rapport">>,
   obligation |-> <<"Loi", "Règlement", "Décret", "Arrêté", "Convention">>,
   jurisprudence |->
     <<"Arrêt", "Décision", "Cour de cassation", "Conseil constitutionnel",
       "Cour de justice de l'union européenne",
       "Tribunal de l'union européenne">>]

\* str.lower on the tokens that hold an upper-case letter.
LowerCase ==
  ("Directive européenne" :> "directive européenne")
  @@ ("Circulaire" :> "circulaire") @@ ("Instruction" :> "instruction")
  @@ ("Normes" :> "normes") @@ ("Communiqué" :> "communiqué")
  @@ ("Avis" :> "avis") @@ ("Recommandation" :> "recommandation")
  @@ ("Décision ou résumé de décisions" :> "décision ou résumé de décisions")
  @@ ("Rapport" :> "rapport") @@ ("Loi" :> "loi")
  @@ ("Règlement" :> "règlement") @@ ("Décret" :> "décret")
  @@ ("Arrêté" :> "arrêté") @@ ("Convention" :> "convention")
  @@ ("Arrêt" :> "arrêt") @@ ("Décision" :> "décision")
  @@ ("Cour de cassation" :> "cour de cassation")
  @@ ("Conseil constitutionnel" :> "conseil constitutionnel")
  @@ ("Cour de justice de l'union européenne" :>
        "cour de justice de l'union européenne")
  @@ ("Tribunal de l'union européenne" :> "tribunal de l'union européenne")
  @@ ("RÈGLEMENT" :> "règlement") @@ ("JURISPRUDENCE" :> "jurisprudence")

LowerToken(token) ==
  IF token \in DOMAIN LowerCase THEN LowerCase[token] ELSE token

\* str.lower
Lower(s) == [i \in 1..Len(s) |-> LowerToken(s[i])]

Quotes == {"\"", "'"}

\* str.strip(chars)
RECURSIVE LStripChars(_, _)
LStripChars(s, chars) ==
  IF s # <<>> /\ Head(s) \in chars THEN LStripChars(Tail(s), chars) ELSE s

RECURSIVE RStripChars(_, _)
RStripChars(s, chars) ==
  IF s # <<>> /\ s[Len(s)] \in chars
  THEN RStripChars(SubSeq(s, 1, Len(s) - 1), chars)
  ELSE s

StripChars(s, chars) == RStripChars(LStripChars(s, chars), chars)

\* The words that hold a category inside them.
Embedded == {<<"jurisprudence", "jurisprudences">>}

\* category in response_lower
Contains(response_lower, category) ==
  \E i \in 1..Len(response_lower) :
    \/ response_lower[i] = category
    \/ <<category, response_lower[i]>> \in Embedded

\* The place of the first slash, 0 when '/' is not in the response.
FirstSlash(response) ==
  IF \E i \in 1..Len(response) : response[i] = "/"
  THEN Min({i \in 1..Len(response) : response[i] = "/"})
  ELSE 0

\* The search of the type that compares without lower().
MatchTypeExact(valid_types, doc_type_response) ==
  LET matches == {i \in 1..Len(valid_types) :
                    <<valid_types[i]>> = doc_type_response}
  IN IF matches # {} THEN valid_types[Min(matches)] ELSE valid_types[1]

\* for valid_type in valid_types:
\*     if valid_type.lower() == doc_type_response.lower(): matched_type = valid_type
\* and valid_types[0] when none matches.
MatchType(valid_types, doc_type_response) ==
  LET matches == {i \in 1..Len(valid_types) :
                    Lower(<<valid_types[i]>>) = Lower(doc_type_response)}
  IN IF matches # {} THEN valid_types[Min(matches)] ELSE valid_types[1]

\* The last steps with the first type of information as the last resort.
DetectCategoryFirstType(response) ==
  LET response_lower == Lower(response) IN
  IF Contains(response_lower, "obligation")
  THEN <<"obligation", "/", APPLICABILITY_CATEGORIES["obligation"][1]>>
  ELSE IF Contains(response_lower, "jurisprudence")
  THEN <<"jurisprudence", "/", APPLICABILITY_CATEGORIES["jurisprudence"][1]>>
  ELSE <<"information", "/", APPLICABILITY_CATEGORIES["information"][1]>>

\* for category in ["obligation", "jurisprudence", "information"]:
\*     if category in response_lower: return category/first type
\* default_result = "information/Avis"
DetectCategory(response) ==
  LET response_lower == Lower(response) IN
  IF Contains(response_lower, "obligation")
  THEN <<"obligation", "/", APPLICABILITY_CATEGORIES["obligation"][1]>>
  ELSE IF Contains(response_lower, "jurisprudence")
  THEN <<"jurisprudence", "/", APPLICABILITY_CATEGORIES["jurisprudence"][1]>>
  ELSE IF Contains(response_lower, "information")
  THEN <<"information", "/", APPLICABILITY_CATEGORIES["information"][1]>>
  ELSE <<"information", "/", "Avis">>

\* response.strip().strip('"\'').strip()
CleanResponse(generated) == Strip(StripChars(Strip(generated), Quotes))

\* The category of a response with a slash whose first part is a category.
ParsedCategory(response) ==
  LET slash == FirstSlash(response)
      category == Strip(Lower(SubSeq(response, 1, slash - 1)))
  IN IF slash > 0 /\ Len(category) = 1
        /\ category[1] \in DOMAIN APPLICABILITY_CATEGORIES
     THEN category
     ELSE <<>>

\* _classify_applicability, from what self.llm.generate returned.
_classify_applicability(generated) ==
  LET response == CleanResponse(generated)
      category == ParsedCategory(response)
      doc_type_response ==
        Strip(SubSeq(response, FirstSlash(response) + 1, Len(response)))
  IN IF category # <<>>
     THEN <<category[1], "/",
            MatchType(APPLICABILITY_CATEGORIES[category[1]], doc_type_response)>>
     ELSE DetectCategory(response)

ResponseTokens ==
  {"obligation", "JURISPRUDENCE", "jurisprudences", "information", "/",
   "Règlement", "RÈGLEMENT", "Arrêt", "\"", SP, "x"}

Responses == SeqsUpTo(ResponseTokens, MaxResponse)

ClassifyInit ==
  /\ store = <<>>
  /\ now = 0
  /\ disk = NoFiles
  /\ \E generated \in Responses :
       last = [op |-> "generate", response |-> generated]

ClassifyApplicability ==
  /\ last.op = "generate"
  /\ last' = [op |-> "_classify_applicability", response |-> last.response,
              result |-> _classify_applicability(last.response)]
  /\ UNCHANGED <<store, now, disk>>

ClassifyNext == ClassifyApplicability

SpecClassify == ClassifyInit /\ [][ClassifyNext]_vars

(* -------------------------------------------------------- _classify_themes *)
\* Longest list of themes in an output of the model.
MaxThemes == 4

\* Some labels of LLMProcessor.THEMES, flattened.
all_themes ==
  {"Principes de prévention", "Affichage", "Secours", "Articles & Guides"}

\* A label the taxonomy does not hold.
UnlistedTheme == "Hors liste"

\* What comes back from the model: the call raises, or its text is not JSON,
\* or it is a JSON object whose "themes" is missing, a string or a list of
\* labels, with or without a "reasoning".
ThemeOutputs ==
  {[raises |-> TRUE, json |-> FALSE, kind |-> "missing", items |-> <<>>,
    reasoning |-> FALSE],
   [raises |-> FALSE, json |-> FALSE, kind |-> "missing", items |-> <<>>,
    reasoning |-> FALSE]}
  \cup
  [raises : {FALSE}, json : {TRUE}, kind : {"missing", "string"},
   items : {<<>>}, reasoning : BOOLEAN]
  \cup
  [raises : {FALSE}, json : {TRUE}, kind : {"list"},
   items : SeqsUpTo(all_themes \cup {UnlistedTheme}, MaxThemes),
   reasoning : BOOLEAN]

\* ThemeClassification: themes is a list of 1 to 3 strings, reasoning a string.
ValidThemes(kind, items) == kind = "list" /\ Len(items) >= 1 /\ Len(items) <= 3

\* _classify_themes_with_function_calling: model_validate_json(raw_args), and
\* the default on any exception.
_classify_themes_with_function_calling(output) ==
  IF output.raises \/ ~output.json THEN <<"Articles & Guides">>
  ELSE IF ~ValidThemes(output.kind, output.items) \/ ~output.reasoning
  THEN <<"Articles & Guides">>
  ELSE output.items

\* _classify_themes_standard: json.loads(response),
\* result.get("themes", ["Articles & Guides"])[:3], and the default on any
\* exception.
_classify_themes_standard(output) ==
  IF output.raises \/ ~output.json THEN <<"Articles & Guides">>
  ELSE LET kind == IF output.kind = "missing" THEN "list" ELSE output.kind
           themes == IF output.kind = "missing" THEN <<"Articles & Guides">>
                     ELSE Slice(output.items, 0, 3)
       IN IF ValidThemes(kind, themes) THEN themes
          ELSE <<"Articles & Guides">>

ThemesInit ==
  /\ store = <<>>
  /\ now = 0
  /\ disk = NoFiles
  /\ \E output \in ThemeOutputs, provider \in {"azure_openai", "other"} :
       last = [op |-> "generate", provider |-> provider, output |-> output]

\* _classify_themes: the function-call path for Azure OpenAI, else the
\* plain-JSON path.
ClassifyThemes ==
  /\ last.op = "generate"
  /\ last' = [op |-> "_classify_themes", provider |-> last.provider,
              output |-> last.output,
              themes |-> IF last.provider = "azure_openai"
                         THEN _classify_themes_with_function_calling(last.output)
                         ELSE _classify_themes_standard(last.output)]
  /\ UNCHANGED <<store, now, disk>>

ThemesNext == ClassifyThemes

SpecThemes == ThemesInit /\ [][ThemesNext]_vars

(* ------------------------------------------------------- process_document *)
\* read_content_from_file: None when the path is empty or is not there, or
\* when reading raises.
read_content_from_file(files, filepath) ==
  IF filepath = <<>> \/ ~path_exists(files, filepath) THEN None
  ELSE IF ~files[filepath].readable THEN None
  ELSE [text |-> files[filepath].text]

\* Longest summary that is kept whole.
SummaryLimit == 500

\* _summarize_document_content: generate(...).strip(), cut at 497 characters
\* and "..." when longer than 500.
_generate_one_shot_summary(generated) ==
  LET summary == Strip(generated)
  IN IF Len(summary) > SummaryLimit
     THEN SubSeq(summary, 1, SummaryLimit - 3) \o <<".", ".", ".">>
     ELSE summary

DefaultTheme == "Articles & Guides"

\* _classify_themes: both paths catch every exception and give the default.
_classify_themes(call) ==
  IF call.raises THEN <<DefaultTheme>> ELSE call.themes

\* The updates of process_document without the themes.
ProcessedUpdatesNoThemes(summary, applicability, themes) ==
  [summary |-> summary, applicability |-> applicability,
   keywords |-> PyNone, processing_status |-> "processed"]

\* updates = {'summary': ..., 'applicability': ..., 'themes': ...,
\*            'keywords': None, 'processing_status': 'processed'}
ProcessedUpdates(summary, applicability, themes) ==
  [summary |-> summary, applicability |-> applicability,
   themes |-> ListOf(themes), keywords |-> PyNone,
   processing_status |-> "processed"]

\* update_processing_status that writes nothing.
update_processing_statusNever(file, document_id, status, now1, now2, write_fails) ==
  [file |-> file, returned |-> FALSE, writes |-> FALSE]

\* update_processing_status: update_document with the status alone.
update_processing_status(file, document_id, status, now1, now2, write_fails) ==
  update_document(file, document_id, [processing_status |-> status],
                  now1, now2, write_fails)

\* process_document that marks a record without content path as error.
process_documentMarksError(file, files, document_id, llm, now1, now2, write_fails) ==
  LET doc == get_by_id(file, document_id)
  IN IF doc # None /\ doc["content"] = <<>>
     THEN update_processing_status(file, document_id, "error", now1, now2,
                                   write_fails)
     ELSE [file |-> file, returned |-> FALSE, writes |-> FALSE]

\* process_document: the file afterwards and the boolean returned.
process_document(file, files, document_id, llm, now1, now2, write_fails) ==
  LET doc == get_by_id(file, document_id)
      failed == [file |-> file, returned |-> FALSE, writes |-> FALSE]
  IN IF doc = None THEN failed
     ELSE IF doc["content"] = <<>> THEN failed
     ELSE LET content == read_content_from_file(files, doc["content"]) IN
          IF content = None THEN failed
          ELSE IF content.text = <<>> THEN failed
          ELSE IF llm.summary.raises \/ llm.applicability.raises
          THEN LET r == update_processing_status(file, document_id, "error",
                                                 now1, now2, write_fails)
               IN [file |-> r.file, returned |-> FALSE, writes |-> r.writes]
          ELSE update_document(
                 file, document_id,
                 ProcessedUpdates(
                   _generate_one_shot_summary(llm.summary.text),
                   _classify_applicability(llm.applicability.text),
                   _classify_themes(llm.themes)),
                 now1, now2, write_fails)

\* The documents the file that is processed was made of.
ProcessDocs ==
  { [id |-> "a", content |-> Path1],
    [id |-> "a", content |-> Path1, summary |-> <<"o">>,
     applicability |-> <<"information", "/", "Avis">>,
     themes |-> ListOf(<<"T0">>), keywords |-> ListOf(<<"k1", "k2">>),
     processing_status |-> "error"],
    [id |-> "b"],
    [id |-> "b", content |-> Path2, summary |-> <<"p">>,
     processing_status |-> "processed", keywords |-> ListOf(<<"k1">>)] }

ProcessFiles ==
  {bulk_create(<<>>, docs_data, 1, FALSE).file :
     docs_data \in SeqsUpTo(ProcessDocs, MaxBatch)}

\* The content files: that of Path1 missing, unreadable, empty or with text,
\* that of Path2 missing or with text.
ProcessDisks ==
  {NoFiles} \cup
  {[p \in {Path1} |-> f] :
     f \in {UnreadableFile, ReadableFile(<<>>), ReadableFile(ContentText)}}
  \cup
  {[p \in ContentPaths |-> IF p = Path1 THEN f ELSE ReadableFile(ContentText)] :
     f \in {UnreadableFile, ReadableFile(<<>>), ReadableFile(ContentText)}}
  \cup {[p \in {Path2} |-> ReadableFile(ContentText)]}

\* What the generation calls do in one process_document.
LlmRuns ==
  [summary : {[raises |-> TRUE, text |-> <<>>],
              [raises |-> FALSE, text |-> <<"s", LF, "t", SP>>]},
   applicability : {[raises |-> TRUE, text |-> <<>>],
                    [raises |-> FALSE,
                     text |-> <<"obligation", "/", "RÈGLEMENT">>],
                    [raises |-> FALSE, text |-> <<"x">>]},
   themes : {[raises |-> TRUE, themes |-> <<>>],
             [raises |-> FALSE, themes |-> <<"T1", "T2">>]}]

ProcessInit ==
  /\ store \in ProcessFiles
  /\ now = 1
  /\ disk \in ProcessDisks
  /\ last = NoCall

ProcessDocument ==
  /\ last.op = "none"
  /\ now < MaxTime
  /\ UNCHANGED disk
  /\ \E document_id \in Ids, llm \in LlmRuns, write_fails \in BOOLEAN :
       LET r == process_document(store, disk, document_id, llm, now + 1,
                                 now + 1, write_fails) IN
       /\ write_fails => r.writes
       /\ store' = r.file
       /\ now' = now + 1
       /\ last' = [NoCall EXCEPT !.op = "process_document",
                     !.id = document_id, !.llm = llm,
                     !.write_fails = write_fails, !.returned = r.returned,
                     !.writes = r.writes, !.pre = store]

ProcessNext == ProcessDocument \/ Return

SpecProcess == ProcessInit /\ [][ProcessNext]_vars

(* ---------------------------------------------------------- process_batch *)
\* Largest batch_size of a call.
MaxBatchSize == 3

Path3 == <<"p", "3">>

\* What one process_document of the batch meets: the generation calls and
\* whether its rewrite of the file fails.
LlmSucceeds ==
  [summary |-> [raises |-> FALSE, text |-> <<"s">>],
   applicability |-> [raises |-> FALSE,
                      text |-> <<"obligation", "/", "RÈGLEMENT">>],
   themes |-> [raises |-> FALSE, themes |-> <<"T1">>]]

LlmRaises == [LlmSucceeds EXCEPT !.summary = [raises |-> TRUE, text |-> <<>>]]

\* All succeeds, the summary call raises, or the rewrite of the file fails.
BatchRuns ==
  {[llm |-> LlmSucceeds, write_fails |-> FALSE],
   [llm |-> LlmRaises, write_fails |-> FALSE],
   [llm |-> LlmSucceeds, write_fails |-> TRUE]}

\* The loop of process_batch that ends at the first document that fails.
RECURSIVE process_batchLoopStops(_, _, _, _, _, _, _, _)
process_batchLoopStops(file, files, pending_docs, runs, now1, i, stats, attempted) ==
  IF i > Len(pending_docs)
  THEN [file |-> file, stats |-> stats, attempted |-> attempted]
  ELSE LET doc_id == pending_docs[i]["id"]
           r == process_document(file, files, doc_id, runs[i].llm,
                                 now1 + i - 1, now1 + i - 1,
                                 runs[i].write_fails)
       IN IF r.returned
          THEN process_batchLoopStops(
                 r.file, files, pending_docs, runs, now1, i + 1,
                 [stats EXCEPT !.processed = @ + 1], Append(attempted, doc_id))
          ELSE [file |-> r.file, stats |-> [stats EXCEPT !.failed = @ + 1],
                attempted |-> Append(attempted, doc_id)]

\* for i, doc in enumerate(pending_docs, 1): the documents from the i-th on;
\* the i-th process_document runs at now1 + i - 1.
RECURSIVE process_batchLoop(_, _, _, _, _, _, _, _)
process_batchLoop(file, files, pending_docs, runs, now1, i, stats, attempted) ==
  IF i > Len(pending_docs)
  THEN [file |-> file, stats |-> stats, attempted |-> attempted]
  ELSE LET doc_id == pending_docs[i]["id"]
           r == process_document(file, files, doc_id, runs[i].llm,
                                 now1 + i - 1, now1 + i - 1,
                                 runs[i].write_fails)
           counted == IF r.returned
                      THEN [stats EXCEPT !.processed = @ + 1]
                      ELSE [stats EXCEPT !.failed = @ + 1]
       IN process_batchLoop(r.file, files, pending_docs, runs, now1, i + 1,
                            counted, Append(attempted, doc_id))

NoStats == [processed |-> 0, failed |-> 0, skipped |-> 0]

\* process_batch: the file afterwards, the stats returned, the documents
\* selected and the ids process_document was called with, in call order.
process_batch(file, files, batch_size, runs, now1) ==
  LET pending_docs == get_pending_for_processing(file, files, batch_size)
  IN IF pending_docs = <<>>
     THEN [file |-> file, stats |-> NoStats, pending_docs |-> <<>>,
           attempted |-> <<>>]
     ELSE LET r == process_batchLoop(file, files, pending_docs, runs, now1,
                                     1, NoStats, <<>>)
          IN [file |-> r.file, stats |-> r.stats,
              pending_docs |-> pending_docs, attempted |-> r.attempted]

\* The documents the file that is processed in batches was made of.
BatchDocs ==
  { [id |-> "a", content |-> Path1],
    [id |-> "a", content |-> Path1, processing_status |-> "error"],
    [id |-> "b", content |-> Path2],
    [id |-> "b"],
    [id |-> "c", content |-> Path3] }

BatchFiles ==
  {bulk_create(<<>>, docs_data, 1, FALSE).file :
     docs_data \in SeqsUpTo(BatchDocs, MaxRows)}

\* The content files: that of Path1 missing, unreadable, empty or with text,
\* that of Path2 missing or with text, that of Path3 with text.
BatchDisks ==
  {[p \in S \cup {Path3} |->
      IF p = Path1 THEN f ELSE ReadableFile(ContentText)] :
     S \in SUBSET {Path1, Path2},
     f \in {UnreadableFile, ReadableFile(<<>>), ReadableFile(ContentText)}}

BatchInit ==
  /\ store \in BatchFiles
  /\ now = 1
  /\ disk \in BatchDisks
  /\ last = NoCall

ProcessBatch ==
  /\ last.op = "none"
  /\ now < MaxTime
  /\ UNCHANGED disk
  /\ \E batch_size \in 0..MaxBatchSize :
     \E runs \in [1..Len(get_pending_for_processing(store, disk, batch_size))
                    -> BatchRuns] :
       LET r == process_batch(store, disk, batch_size, runs, now + 1) IN
       /\ store' = r.file
       /\ now' = now + 1 + Len(r.attempted)
       /\ last' = [op |-> "process_batch", batch_size |-> batch_size,
                   pending_docs |-> r.pending_docs,
                   attempted |-> r.attempted, stats |-> r.stats,
                   pre |-> store]

BatchNext == ProcessBatch \/ Return

SpecBatch == BatchInit /\ [][BatchNext]_vars

\* process_batch called again and again with batch_size >= 1, nothing
\* ingested or deleted in between, every rewrite of the file succeeding. The
\* clock of the model moves only when a call has written, which is the one
\* place where its value is stored.
ProcessBatchAgain ==
  /\ last.op = "none"
  /\ UNCHANGED disk
  /\ \E batch_size \in 1..MaxBatchSize :
     \E runs \in [1..Len(get_pending_for_processing(store, disk, batch_size))
                    -> {run \in BatchRuns : ~run.write_fails}] :
       LET r == process_batch(store, disk, batch_size, runs, now + 1) IN
       /\ store' = r.file
       /\ now' = IF store' = store THEN now ELSE now + batch_size
       /\ last' = [op |-> "process_batch", batch_size |-> batch_size,
                   pre |-> store]

BatchAgainNext == ProcessBatchAgain \/ Return

\* The caller goes on calling: a call that was made returns, and a call is
\* made again and again. ProcessBatchAgain can be taken exactly when
\* last.op = "none" and leaves last.op = "process_batch", so the second
\* condition is WF_vars(ProcessBatchAgain) written as its meaning.
SpecBatchFair ==
  /\ BatchInit
  /\ [][BatchAgainNext]_vars
  /\ WF_vars(Return)
  /\ []<>(last.op = "process_batch")

(* ------------------------------------------- reads that fail partway *)
\* What _read_all_documents can return for a file: every row, or, when the
\* reader raises on a row (csv.Error, a decoding error, an I/O error), the rows
\* read before it; the handler logs and the list built so far is returned.
ReadResults(file) == {SubSeq(file, 1, k) : k \in 0..Len(file)}

\* create, with the rows the reader of exists() went through.
create_reading(file, rows_read, doc_data, now_str) ==
  IF exists(rows_read, Get(doc_data, "id", ""))
  THEN [file |-> file, returned |-> FALSE]
  ELSE LET r == create(<<>>, doc_data, now_str, FALSE)
       IN [file |-> file \o r.file, returned |-> r.returned]

\* bulk_create, with the lists its two _read_all_documents calls returned:
\* ids_read for existing_ids, docs_read for existing_docs.
bulk_create_reading(file, ids_read, docs_read, docs_data, now_str) ==
  LET acc == BulkLoop([created_docs |-> <<>>, skipped |-> 0,
                       existing_ids |->
                         {ids_read[i]["id"] : i \in 1..Len(ids_read)}],
                      docs_data, now_str)
  IN IF acc.created_docs # <<>>
     THEN [file |-> writerows(docs_read \o acc.created_docs),
           created |-> Len(acc.created_docs), skipped |-> acc.skipped]
     ELSE [file |-> file, created |-> 0, skipped |-> acc.skipped]

\* update_document, with the list its _read_all_documents call returned.
update_document_reading(file, documents, document_id, updates, now1, now2) ==
  LET r == update_document(documents, document_id, updates, now1, now2, FALSE)
  IN IF r.writes THEN [file |-> r.file, returned |-> r.returned]
     ELSE [file |-> file, returned |-> r.returned]

\* The documents handed to create and bulk_create.
PartialDocs ==
  { [id |-> "a", source |-> "JORF"],
    [id |-> "d", content |-> Path1],
    [id |-> "e", titre |-> <<"x">>] }

\* The partial updates handed to update_document.
PartialUpdates ==
  { [processing_status |-> "processed"], [titre |-> <<"y">>] }

PartialInit ==
  /\ store \in BatchFiles
  /\ now = 1
  /\ disk = NoFiles
  /\ last = NoCall

CreateReading ==
  /\ last.op = "none"
  /\ now < MaxTime
  /\ UNCHANGED disk
  /\ \E doc_data \in PartialDocs, rows_read \in ReadResults(store) :
       LET r == create_reading(store, rows_read, doc_data, now + 1) IN
       /\ store' = r.file
       /\ now' = now + 1
       /\ last' = [op |-> "create", docs |-> <<doc_data>>, id |-> "",
                   read |-> Len(rows_read), pre |-> store]

BulkCreateReading ==
  /\ last.op = "none"
  /\ now < MaxTime
  /\ UNCHANGED disk
  /\ \E docs_data \in SeqsUpTo(PartialDocs, MaxBatch) :
     \E ids_read \in ReadResults(store), docs_read \in ReadResults(store) :
       LET r == bulk_create_reading(store, ids_read, docs_read, docs_data,
                                    now + 1) IN
       /\ store' = r.file
       /\ now' = now + 1
       /\ last' = [op |-> "bulk_create", docs |-> docs_data, id |-> "",
                   read |-> IF Len(ids_read) < Len(docs_read)
                            THEN Len(ids_read) ELSE Len(docs_read),
                   pre |-> store]

UpdateDocumentReading ==
  /\ last.op = "none"
  /\ now < MaxTime
  /\ UNCHANGED disk
  /\ \E document_id \in ReadIds, updates \in PartialUpdates :
     \E documents \in ReadResults(store) :
       LET r == update_document_reading(store, documents, document_id,
                                        updates, now + 1, now + 1) IN
       /\ store' = r.file
       /\ now' = now + 1
       /\ last' = [op |-> "update_document", docs |-> <<>>,
                   id |-> document_id, read |-> Len(documents),
                   pre |-> store]

PartialNext ==
  CreateReading \/ BulkCreateReading \/ UpdateDocumentReading \/ Return

SpecPartial == PartialInit /\ [][PartialNext]_vars

(* --------------------------------------------- two bulk_create calls *)
\* The two callers whose bulk_create calls overlap.
Writers == {"1", "2"}

\* mkstemp gives each call a file of its own in the directory of the CSV file.
temp_file_of(w) == Append(temp_file, w)

\* os.rename that keeps the rows of the destination and adds the new ones.
renamedMerging(dst, src) ==
  dst \o SelectSeq(src, LAMBDA row : ~exists(dst, row["id"]))

\* shutil.move(temp_file, csv_file) by os.rename: the destination is replaced
\* by the source, whatever it held.
renamed(dst, src) == src

\* The lists handed to the two calls.
RaceDocs ==
  [w \in Writers |->
     SeqsUpTo(IF w = "1" THEN {[id |-> "a"], [id |-> "b", source |-> "JORF"]}
              ELSE {[id |-> "c"], [id |-> "b", source |-> "EURLEX"]},
              MaxBatch)]

\* The files the calls start on.
RaceFiles ==
  {bulk_create(<<>>, docs_data, 1, FALSE).file :
     docs_data \in SeqsUpTo({[id |-> "b"], [id |-> "e"]}, MaxBatch)}

\* Each call is before its first read ("called"), has built existing_ids
\* ("ids"), has read existing_docs ("docs"), has written its temporary file
\* ("written") or is over ("returned").
RaceInit ==
  /\ store \in RaceFiles
  /\ now = 1
  /\ disk = NoFiles
  /\ \E d1 \in RaceDocs["1"], d2 \in RaceDocs["2"] :
       last = [op |-> "bulk_create",
               pc |-> [w \in Writers |-> "called"],
               docs |-> [w \in Writers |-> IF w = "1" THEN d1 ELSE d2],
               acc |-> [w \in Writers |->
                          [created_docs |-> <<>>, skipped |-> 0,
                           existing_ids |-> {}]],
               all_docs |-> [w \in Writers |-> <<>>],
               read_before_rename |-> [w \in Writers |-> FALSE],
               result |-> [w \in Writers |-> <<0, 0>>],
               renames |-> <<>>]

\* existing_ids = {...}, then the loop over docs_data.
RaceReadIds(w) ==
  /\ last.op = "bulk_create"
  /\ last.pc[w] = "called"
  /\ LET read == _read_all_documents(store)
         acc == BulkLoop([created_docs |-> <<>>, skipped |-> 0,
                          existing_ids |->
                            {read[i]["id"] : i \in 1..Len(read)}],
                         last.docs[w], now + 1)
     IN last' = [last EXCEPT !.pc[w] = "ids", !.acc[w] = acc]
  /\ UNCHANGED <<store, now, disk>>

\* if created_docs: existing_docs = self._read_all_documents(parse=False);
\* else return 0, skipped
RaceReadDocs(w) ==
  /\ last.op = "bulk_create"
  /\ last.pc[w] = "ids"
  /\ IF last.acc[w].created_docs = <<>>
     THEN last' = [last EXCEPT !.pc[w] = "returned",
                     !.result[w] = <<0, last.acc[w].skipped>>]
     ELSE last' = [last EXCEPT !.pc[w] = "docs",
                     !.all_docs[w] =
                        _read_all_documents(store) \o last.acc[w].created_docs,
                     !.read_before_rename[w] = (last.renames = <<>>)]
  /\ UNCHANGED <<store, now, disk>>

\* mkstemp and writerows(all_docs) into the temporary file.
RaceWriteTemp(w) ==
  /\ last.op = "bulk_create"
  /\ last.pc[w] = "docs"
  /\ disk' = [p \in DOMAIN disk \cup {temp_file_of(w)} |->
                IF p = temp_file_of(w) THEN writerows(last.all_docs[w])
                ELSE disk[p]]
  /\ last' = [last EXCEPT !.pc[w] = "written"]
  /\ UNCHANGED <<store, now>>

\* shutil.move, then return len(created_docs), skipped.
RaceRename(w) ==
  /\ last.op = "bulk_create"
  /\ last.pc[w] = "written"
  /\ store' = renamed(store, disk[temp_file_of(w)])
  /\ disk' = [p \in DOMAIN disk \ {temp_file_of(w)} |-> disk[p]]
  /\ last' = [last EXCEPT !.pc[w] = "returned",
                !.result[w] = <<Len(last.acc[w].created_docs),
                                last.acc[w].skipped>>,
                !.renames = Append(@, w)]
  /\ UNCHANGED now

RaceNext ==
  \E w \in Writers :
    RaceReadIds(w) \/ RaceReadDocs(w) \/ RaceWriteTemp(w) \/ RaceRename(w)

SpecRace == RaceInit /\ [][RaceNext]_vars

(* ------------------------------------------------------ scrape_date_range *)
\* The calendar days of the model are 1..MaxDay.
MaxDay == 3
\* A datetime is a day and a time of day: 0 is midnight, 1 is later that day.
Datetimes == [day : 1..MaxDay, time : {0, 1}]

\* datetime.now() during the call.
DatetimeNow == [day |-> 2, time |-> 1]

\* a <= b on datetimes
NotAfter(a, b) == a.day < b.day \/ (a.day = b.day /\ a.time <= b.time)

\* The values of date_from and date_to: None, a 'YYYY-MM-DD' string, a string
\* that is not of that format, or a datetime.
DateArguments ==
  {[kind |-> "None"], [kind |-> "malformed"]}
  \cup {[kind |-> "str", day |-> d] : d \in 1..MaxDay}
  \cup {[kind |-> "datetime", value |-> v] : v \in Datetimes}

\* datetime.strptime(s, '%Y-%m-%d'): midnight of the day.
strptime(argument) == [day |-> argument.day, time |-> 0]

\* What the listing page of a day gives.
PageOutcomes == {"unreachable", "malformed", "documents"}

\* scrape_daily_view(target_date=a datetime): the documents of the listing
\* page of its day, or [] when the page cannot be fetched or parsed.
scrape_daily_view(pages, target_date) ==
  IF pages[target_date.day] = "documents"
  THEN <<[id |-> target_date.day, date |-> target_date]>>
  ELSE <<>>

\* while current_date <= end_date: ...; current_date += timedelta(days=1)
RECURSIVE scrape_loop(_, _, _, _, _)
scrape_loop(pages, current_date, end_date, scraped, all_documents) ==
  IF NotAfter(current_date, end_date)
  THEN scrape_loop(pages, [current_date EXCEPT !.day = @ + 1], end_date,
                   Append(scraped, current_date.day),
                   all_documents \o scrape_daily_view(pages, current_date))
  ELSE [scraped |-> scraped, all_documents |-> all_documents]

\* scrape_date_range: the days scrape_daily_view was called for, in call
\* order, and the list returned.
scrape_date_range(pages, date_from, date_to) ==
  IF date_from.kind = "malformed"
  THEN [scraped |-> <<>>, all_documents |-> <<>>]
  ELSE LET start_date == IF date_from.kind = "None" THEN DatetimeNow
                         ELSE IF date_from.kind = "str" THEN strptime(date_from)
                         ELSE date_from.value
       IN IF date_to.kind = "malformed"
          THEN [scraped |-> <<>>, all_documents |-> <<>>]
          ELSE LET end_date == IF date_to.kind = "None" THEN start_date
                               ELSE IF date_to.kind = "str" THEN strptime(date_to)
                               ELSE date_to.value
               IN IF NotAfter(start_date, end_date)
                  THEN scrape_loop(pages, start_date, end_date, <<>>, <<>>)
                  ELSE scrape_loop(pages, end_date, start_date, <<>>, <<>>)

RangeInit ==
  /\ store = <<>>
  /\ now = 1
  /\ disk = NoFiles
  /\ last = NoCall

ScrapeDateRange ==
  /\ last.op = "none"
  /\ \E pages \in [1..MaxDay -> PageOutcomes] :
     \E date_from \in DateArguments, date_to \in DateArguments :
       LET r == scrape_date_range(pages, date_from, date_to) IN
       last' = [op |-> "scrape_date_range", pages |-> pages,
                date_from |-> date_from, date_to |-> date_to,
                scraped |-> r.scraped, all_documents |-> r.all_documents]
  /\ UNCHANGED <<store, now, disk>>

RangeNext == ScrapeDateRange \/ Return

SpecRange == RangeInit /\ [][RangeNext]_vars

(* ------------------------------------------------------------ ingestion *)
\* Largest number of entries of an email or of a listing page.
MaxEntries == 2

\* The numbers of the acts of an email and the ids of a listing page.
JorfIds == {"1", "2"}
EurlexIds == {"2024/1", "2024/2"}
\* The pages the entries link to.
Urls == {"u1", "u2"}

\* re.sub(r'[^\w\-_\.]', '_', doc_id)
safe_id(doc_id) ==
  IF doc_id = "2024/1" THEN "2024_1"
  ELSE IF doc_id = "2024/2" THEN "2024_2"
  ELSE doc_id

\* os.path.join(directory, f"{safe_id}.txt")
filepath(directory, doc_id) == <<directory, safe_id(doc_id)>>

\* The text of the content block of a page.
PageText(url) == <<"text of ", url>>
\* "Contenu non trouvé", saved when the page has no content block.
NotFoundText == <<"Contenu non trouvé">>
\* f"Erreur: {e}", saved when the fetch raises.
ErrorText == <<"Erreur: ", "e">>

\* What the fetch of the page of an entry gives: it raises (network error,
\* timeout, HTTP error), the page has no content block, or it has one.
FetchOutcomes == {"raises", "no block", "content"}

Entries == [id : JorfIds \cup EurlexIds, url : Urls, fetch : FetchOutcomes]

\* open(filepath, 'w').write(content): the file is made or overwritten (the
\* write is taken to succeed).
_save_content_to_file(files, path, content) ==
  [p \in DOMAIN files \cup {path} |->
     IF p = path THEN ReadableFile(content) ELSE files[p]]

\* JORFEmailParser._scrape_article_content: a file is saved in every case, and
\* its path returned.
_scrape_article_content(files, entry) ==
  LET path == filepath("jorf", entry.id)
      content == IF entry.fetch = "raises" THEN ErrorText
                 ELSE IF entry.fetch = "no block" THEN NotFoundText
                 ELSE PageText(entry.url)
  IN [files |-> _save_content_to_file(files, path, content),
      content_path |-> path]

\* JORFEmailParser._parse_content: one document for each act that has a
\* link, with the index of its entry.
RECURSIVE _parse_content(_, _, _, _)
_parse_content(files, entries, i, documents) ==
  IF i > Len(entries) THEN [files |-> files, documents |-> documents]
  ELSE LET scraped == _scrape_article_content(files, entries[i])
           document == [id |-> entries[i].id, source |-> "JORF",
                        titre |-> <<entries[i].url>>,
                        content |-> scraped.content_path]
       IN _parse_content(scraped.files, entries, i + 1,
                         Append(documents, [entry |-> i, doc |-> document]))

\* EURLexScraper._scrape_document_details: nothing is saved when the fetch
\* raises or the page has no content block, and the content is None.
_scrape_document_details(files, entry) ==
  IF entry.fetch = "content"
  THEN LET path == filepath("eurlex_l", entry.id)
       IN [files |-> _save_content_to_file(files, path, PageText(entry.url)),
           content_path |-> path]
  ELSE [files |-> files, content_path |-> <<>>]

\* EURLexScraper._parse_daily_view: one document for each id of the page,
\* the first container of an id only.
RECURSIVE _parse_daily_view(_, _, _, _, _)
_parse_daily_view(files, entries, i, documents, seen_ids) ==
  IF i > Len(entries) THEN [files |-> files, documents |-> documents]
  ELSE IF entries[i].id \in seen_ids
  THEN _parse_daily_view(files, entries, i + 1, documents, seen_ids)
  ELSE LET details == _scrape_document_details(files, entries[i])
           document == [id |-> entries[i].id, source |-> "EURLEX",
                        titre |-> <<entries[i].url>>,
                        content |-> details.content_path]
       IN _parse_daily_view(details.files, entries, i + 1,
                            Append(documents, [entry |-> i, doc |-> document]),
                            seen_ids \cup {entries[i].id})

\* The documents of the records, as handed to bulk_create.
DocsOf(documents) == [k \in 1..Len(documents) |-> documents[k].doc]

IngestInit ==
  /\ store = <<>>
  /\ now = 1
  /\ disk = NoFiles
  /\ last = NoCall

\* scrape_jorf: parser.parse(), then repo.bulk_create(documents).
ScrapeJorf ==
  /\ last.op = "none"
  /\ now < MaxTime
  /\ \E entries \in SeqsUpTo([id : JorfIds, url : Urls, fetch : FetchOutcomes],
                             MaxEntries) :
       LET parsed == _parse_content(disk, entries, 1, <<>>)
           r == bulk_create(store, DocsOf(parsed.documents), now + 1, FALSE)
       IN /\ disk' = parsed.files
          /\ store' = IF parsed.documents = <<>> THEN store ELSE r.file
          /\ now' = now + 1
          /\ last' = [op |-> "scrape_jorf", entries |-> entries,
                      documents |-> parsed.documents,
                      created |-> r.created, skipped |-> r.skipped,
                      pre |-> store, pre_disk |-> disk]

\* scrape_eurlex: scraper.scrape_daily_view(...), then bulk_create(documents).
ScrapeEurlex ==
  /\ last.op = "none"
  /\ now < MaxTime
  /\ \E entries \in SeqsUpTo([id : EurlexIds, url : Urls,
                              fetch : FetchOutcomes], MaxEntries) :
       LET parsed == _parse_daily_view(disk, entries, 1, <<>>, {})
           r == bulk_create(store, DocsOf(parsed.documents), now + 1, FALSE)
       IN /\ disk' = parsed.files
          /\ store' = IF parsed.documents = <<>> THEN store ELSE r.file
          /\ now' = now + 1
          /\ last' = [op |-> "scrape_eurlex", entries |-> entries,
                      documents |-> parsed.documents,
                      created |-> r.created, skipped |-> r.skipped,
                      pre |-> store, pre_disk |-> disk]

IngestNext == ScrapeJorf \/ ScrapeEurlex \/ Return

SpecIngest == IngestInit /\ [][IngestNext]_vars

(* ------------------------------------------- the escaping, on its own *)
Chars == {LF, CR, BS, "n", "r", "a"}

Strings == SeqsUpTo(Chars, MaxLen)

\* A text is written (escaped) and then read back (unescaped).
EscInit ==
  /\ store = <<>>
  /\ now = 0
  /\ disk = NoFiles
  /\ \E s \in Strings : last = [op |-> "text", text |-> s]

EscWrite ==
  /\ last.op = "text"
  /\ last' = [op |-> "written", text |-> last.text,
              stored |-> _escape_newlines(last.text)]
  /\ UNCHANGED <<store, now, disk>>

EscRead ==
  /\ last.op = "written"
  /\ last' = [op |-> "read", text |-> last.text, stored |-> last.stored,
              got |-> _unescape_newlines(last.stored)]
  /\ UNCHANGED <<store, now, disk>>

EscNext == EscWrite \/ EscRead

SpecEscape == EscInit /\ [][EscNext]_vars

(* ----------------------------------------------------------------- claims *)
IsCreate == last.op \in {"create", "bulk_create"}

\* The positions of the input records whose id is not empty.
WithId(docs) == {k \in 1..Len(docs) : Truthy(docs[k], "id")}

\* The positions of the input records whose id is a row of the file.
Stored(docs, file) == {k \in WithId(docs) : exists(file, docs[k]["id"])}

\* The positions of the input records that bring a new id for the first time.
FirstNew(docs, file) ==
  {k \in WithId(docs) \ Stored(docs, file) :
     \A j \in 1..(k - 1) : Get(docs[j], "id", "") # docs[k]["id"]}

UniqueIds(file) ==
  \A i, j \in 1..Len(file) : file[i]["id"] = file[j]["id"] => i = j

\* The file starts with the rows it had before the call, unchanged.
KeepsRows(file, pre) ==
  Len(file) >= Len(pre) /\ SubSeq(file, 1, Len(pre)) = pre

\* C1: calls made one at a time never leave two rows with one id; a create or
\* bulk_create of a record whose id is stored leaves that row as it was and
\* reports the record skipped (None from create, one more skip from bulk_create).
C1_UniqueIds ==
  /\ UniqueIds(store)
  /\ (IsCreate /\ Stored(last.docs, last.pre) # {}) =>
       /\ KeepsRows(store, last.pre)
       /\ last.op = "create" => ~last.returned /\ store = last.pre
       /\ last.op = "bulk_create" =>
            last.skipped >= Cardinality(Stored(last.docs, last.pre))

\* A bulk_create that rewrote the file with a new row while one of its records
\* had a stored id.
C1_Witness ==
  /\ last.op = "bulk_create"
  /\ last.created > 0
  /\ Stored(last.docs, last.pre) # {}

SystemFields == {"created_at", "updated_at", "processed"}

\* The stored row with an id (the first one).
Row(file, document_id) == file[Min(RowsWithId(file, document_id))]

\* C3: after bulk_create, get_by_id of every record stored by the call returns
\* the input on every field of the input but created_at, updated_at, processed.
C3_RoundTrip ==
  (last.op = "bulk_create" /\ ~last.write_fails) =>
    \A k \in FirstNew(last.docs, last.pre) :
      LET doc == last.docs[k]
          got == get_by_id(store, doc["id"])
      IN /\ got # None
         /\ \A f \in (DOMAIN doc) \ SystemFields : got[f] = doc[f]

\* C4: a text that is escaped and then unescaped is the text.
C4_EscapeReversible ==
  last.op = "read" => last.got = last.text

\* C5: no stored content is longer than the limit; a create, bulk_create or
\* update_document given a longer content stores the record with content ''.
C5_ContentBounded ==
  /\ \A i \in 1..Len(store) : Len(store[i]["content"]) <= PathSanityLimit
  /\ (IsCreate /\ ~last.write_fails) =>
       \A k \in FirstNew(last.docs, last.pre) :
         ("content" \in DOMAIN last.docs[k]
            /\ Len(last.docs[k]["content"]) > PathSanityLimit) =>
           /\ exists(store, last.docs[k]["id"])
           /\ Row(store, last.docs[k]["id"])["content"] = <<>>
  /\ (last.op = "update_document" /\ last.returned
        /\ "content" \in DOMAIN last.updates
        /\ Len(last.updates["content"]) > PathSanityLimit) =>
       Row(store, last.id)["content"] = <<>>

\* update_document was given a content longer than the limit for a row that
\* held a path.
C5_Witness ==
  /\ last.op = "update_document"
  /\ last.returned
  /\ "content" \in DOMAIN last.updates
  /\ Len(last.updates["content"]) > PathSanityLimit
  /\ Row(last.pre, last.id)["content"] # <<>>

\* The positions of the input records with a content longer than the limit.
Oversized(docs) ==
  {k \in 1..Len(docs) :
     "content" \in DOMAIN docs[k] /\ Len(docs[k]["content"]) > PathSanityLimit}

\* C6 as stated: every record of a bulk_create batch without an id or with a
\* content longer than the limit is counted as skipped and adds no row.
C6_InvalidSkipped ==
  last.op = "bulk_create" =>
    LET invalid == ((1..Len(last.docs)) \ WithId(last.docs))
                     \cup Oversized(last.docs)
    IN /\ last.skipped >= Cardinality(invalid)
       /\ last.created <= Len(last.docs) - Cardinality(invalid)

\* C6 amended: a record without an id is counted as skipped and adds no row; a
\* record with a new id and a content longer than the limit is stored, with
\* content '', and counted as created; every other record of the batch is
\* still processed (each new id gets its row).
C6_Amended ==
  (last.op = "bulk_create" /\ ~last.write_fails) =>
    /\ last.skipped >= Len(last.docs) - Cardinality(WithId(last.docs))
    /\ \A i \in 1..Len(store) : store[i]["id"] # ""
    /\ \A k \in FirstNew(last.docs, last.pre) :
         /\ exists(store, last.docs[k]["id"])
         /\ k \in Oversized(last.docs) =>
              Row(store, last.docs[k]["id"])["content"] = <<>>
    /\ last.created = Cardinality(FirstNew(last.docs, last.pre))
    /\ last.created >=
         Cardinality(FirstNew(last.docs, last.pre) \cap Oversized(last.docs))

\* A batch holding a record without id and a new record with a content longer
\* than the limit: the second is created.
C6_Witness ==
  /\ last.op = "bulk_create"
  /\ ~last.write_fails
  /\ WithId(last.docs) # 1..Len(last.docs)
  /\ FirstNew(last.docs, last.pre) \cap Oversized(last.docs) # {}
  /\ last.created >= 1

\* C7: every stored row whose status is processed has a processed timestamp.
C7_ProcessedStamped ==
  \A i \in 1..Len(store) :
    store[i]["processing_status"] = "processed" =>
      store[i]["processed"] # EmptyTs

\* update_document moved a row that was never processed to processed.
C7_Witness ==
  /\ last.op = "update_document"
  /\ last.returned
  /\ Row(last.pre, last.id)["processing_status"] # "processed"
  /\ Row(last.pre, last.id)["processed"] = EmptyTs
  /\ Row(store, last.id)["processing_status"] = "processed"

\* C8 as stated: no update_document changes a processed timestamp that is set.
C8_ProcessedKept ==
  last.op = "update_document" =>
    \A i \in 1..Len(last.pre) :
      last.pre[i]["processed"] # EmptyTs =>
        store[i]["processed"] = last.pre[i]["processed"]

\* C8 amended: no update_document whose updates do not name the processed field
\* changes a processed timestamp that is set (a second processed, or error or
\* pending and processed again, keep the first value).
C8_Amended ==
  (last.op = "update_document" /\ "processed" \notin DOMAIN last.updates) =>
    \A i \in 1..Len(last.pre) :
      last.pre[i]["processed"] # EmptyTs =>
        store[i]["processed"] = last.pre[i]["processed"]

\* A row stamped earlier, moved to error since, is set to processed again.
C8_Witness ==
  /\ last.op = "update_document"
  /\ last.returned
  /\ "processing_status" \in DOMAIN last.updates
  /\ last.updates["processing_status"] = "processed"
  /\ Row(last.pre, last.id)["processing_status"] = "error"
  /\ Row(last.pre, last.id)["processed"] # EmptyTs
  /\ Row(last.pre, last.id)["processed"] < now

\* C9: a record created without a created_at is stored with created_at set to
\* the time of the call.
C9_CreatedAtSet ==
  (IsCreate /\ ~last.write_fails) =>
    \A k \in FirstNew(last.docs, last.pre) :
      "created_at" \notin DOMAIN last.docs[k] =>
        Row(store, last.docs[k]["id"])["created_at"] = now

\* C10: update_document on a stored id keeps the number of rows and every other
\* row; in the row it keeps id and created_at, and every field the updates do
\* not name other than updated_at, which becomes the time of the call, and
\* processed, which changes only by being set when the status becomes
\* processed and it was empty.
C10_UpdateFrame ==
  (last.op = "update_document" /\ exists(last.pre, last.id)) =>
    LET t == Min(RowsWithId(last.pre, last.id)) IN
    /\ Len(store) = Len(last.pre)
    /\ \A i \in 1..Len(store) : i # t => store[i] = last.pre[i]
    /\ ~last.returned => store = last.pre
    /\ last.returned =>
         /\ store[t]["id"] = last.pre[t]["id"]
         /\ store[t]["created_at"] = last.pre[t]["created_at"]
         /\ store[t]["updated_at"] = now
         /\ \A f \in fieldnames \ ((DOMAIN last.updates) \cup SystemFields) :
              store[t][f] = last.pre[t][f]
         /\ ("processed" \notin DOMAIN last.updates
               /\ store[t]["processed"] # last.pre[t]["processed"]) =>
              /\ last.pre[t]["processed"] = EmptyTs
              /\ last.pre[t]["processing_status"] # "processed"
              /\ store[t]["processing_status"] = "processed"
              /\ store[t]["processed"] \in {now - 1, now}

\* The updates name id and created_at, and the row holds a titre with escaped
\* line breaks.
C10_Witness ==
  /\ last.op = "update_document"
  /\ last.returned
  /\ {"id", "created_at"} \subseteq DOMAIN last.updates
  /\ \E j \in 1..Len(Row(last.pre, last.id)["titre"]) :
       Row(last.pre, last.id)["titre"][j] = BS
  /\ Len(store) = 2

\* C11: update_document with an id that is not stored returns false and leaves
\* the file as it was, without rewriting it.
C11_UpdateMissing ==
  (last.op = "update_document" /\ ~exists(last.pre, last.id)) =>
    /\ ~last.returned
    /\ ~last.writes
    /\ store = last.pre

\* update_document named an id that is not stored while another row is.
C11_Witness ==
  /\ last.op = "update_document"
  /\ ~exists(last.pre, last.id)
  /\ last.pre # <<>>
  /\ "processing_status" \in DOMAIN last.updates

\* The rows of a file whose id is not in a set, in their order.
Others(file, id_set) == SelectSeq(file, LAMBDA doc : doc["id"] \notin id_set)

\* C12: delete_documents removes the rows whose id is named and no other,
\* keeps the others in their order and returns the number removed; with no id,
\* or no id that is stored, it returns 0 and does not rewrite the file.
C12_DeleteExact ==
  (last.op = "delete_documents" /\ ~last.raised) =>
    /\ store = Others(last.pre, last.ids)
    /\ last.deleted = Len(last.pre) - Len(store)
    /\ last.deleted =
         Cardinality({i \in 1..Len(last.pre) : last.pre[i]["id"] \in last.ids})
    /\ (\A i \in 1..Len(last.pre) : last.pre[i]["id"] \notin last.ids) =>
         /\ last.deleted = 0
         /\ ~last.writes
         /\ store = last.pre

\* Two ids are named, both are stored, and both rows go.
C12_Witness ==
  /\ last.op = "delete_documents"
  /\ ~last.raised
  /\ last.deleted = 2
  /\ Len(last.pre) = 2

\* C13: get_all(skip, limit) returns the records skip+1 .. skip+limit of a
\* list of all stored records in which created_at never increases and no
\* record without a valid created_at comes before one with a valid one.
C13_GetAllSorted ==
  last.op = "get_all" =>
    LET all == last.documents
        n == Len(store)
        end == IF last.skip + last.limit < n THEN last.skip + last.limit ELSE n
    IN /\ Len(all) = n
       /\ \A i \in 1..n : \E j \in 1..n : all[j] = _parse_doc(store[i])
       /\ \A i, j \in 1..n :
            (i < j /\ Parses(all[j]["created_at"])) =>
              /\ Parses(all[i]["created_at"])
              /\ all[i]["created_at"] >= all[j]["created_at"]
       /\ Len(last.result) = (IF end > last.skip THEN end - last.skip ELSE 0)
       /\ \A k \in 1..Len(last.result) : last.result[k] = all[last.skip + k]

\* The file holds a row without a valid created_at first, then an older and a
\* newer row, and the second page of one record is asked for.
C13_Witness ==
  /\ last.op = "get_all"
  /\ Len(store) = 3
  /\ ~Parses(store[1]["created_at"])
  /\ Parses(store[2]["created_at"])
  /\ store[3]["created_at"] > store[2]["created_at"]
  /\ last.skip = 1
  /\ last.limit = 1
  /\ last.result = <<_parse_doc(store[2])>>

\* The rows of the file that are pending with a content file that exists.
Eligible(file, files) ==
  SelectSeq(ParsedDocuments(file),
            LAMBDA doc : /\ doc["processing_status"] = "pending"
                         /\ doc["content"] # <<>>
                         /\ doc["content"] \in DOMAIN files)

\* C14: get_pending_for_processing(limit) returns the first limit records, in
\* store order, of those that are pending with a non-empty content path whose
\* file exists at the time of the call, and changes no row.
C14_PendingEligible ==
  last.op = "get_pending_for_processing" =>
    LET eligible == Eligible(store, disk) IN
    /\ Len(last.result) <= last.limit
    /\ Len(last.result) <= Len(eligible)
    /\ Len(last.result) = last.limit \/ Len(last.result) = Len(eligible)
    /\ \A k \in 1..Len(last.result) : last.result[k] = eligible[k]
    /\ store = last.pre

\* A pending record whose content file is missing is left out, and stays
\* pending, while a later one with its file is returned.
C14_Witness ==
  /\ last.op = "get_pending_for_processing"
  /\ Len(store) >= 2
  /\ store[1]["processing_status"] = "pending"
  /\ store[1]["content"] # <<>>
  /\ store[1]["content"] \notin DOMAIN disk
  /\ last.result = <<_parse_doc(store[2])>>

\* C15: when the process is stopped at any step of the rewrite of bulk_create,
\* update_document or delete_documents, the CSV file holds either all of what
\* it held before the operation or all of what the operation writes.
C15_NeverPartial ==
  last.step = "interrupted" => (store = last.pre \/ store = last.target)

\* C16 (as stated): a rewrite that fails is raised to the caller of
\* bulk_create, update_document and delete_documents, and the temporary file
\* is gone.
C16_Propagated ==
  (last.step = "returned" /\ last.failed) =>
    /\ last.raised
    /\ temp_file \notin DOMAIN disk

\* C16 (amended): when the rewrite fails the temporary file is gone;
\* delete_documents raises, bulk_create returns no record created and every
\* validated record skipped, and update_document returns false.
C16_Amended ==
  (last.step = "returned" /\ last.failed) =>
    /\ temp_file \notin DOMAIN disk
    /\ last.op = "delete_documents" => last.raised
    /\ last.op = "bulk_create" =>
         /\ ~last.raised
         /\ last.created = 0
         /\ last.skipped = Len(last.docs)
    /\ last.op = "update_document" =>
         /\ ~last.raised
         /\ ~last.returned

\* The rewrite of bulk_create failed and the file is as it was.
C16_Witness ==
  /\ last.step = "returned"
  /\ last.failed
  /\ last.op = "bulk_create"
  /\ Len(last.target) > Len(last.pre)
  /\ store = last.pre

\* C19: the classifier returns a pair of the closed vocabulary for every
\* response; for category/subtype with a category of the vocabulary and a
\* subtype that is, case aside, one of its subtypes, it returns the category
\* with that subtype as the vocabulary writes it; with a subtype that is none
\* of them, the category with its first subtype.  (Quotes and blanks around
\* the response, and blanks around the subtype, are left aside.)
C19_ClosedVocabulary ==
  last.op = "_classify_applicability" =>
    LET response == Strip(StripChars(Strip(last.response), Quotes)) IN
    /\ \E c \in DOMAIN APPLICABILITY_CATEGORIES :
         \E i \in 1..Len(APPLICABILITY_CATEGORIES[c]) :
           last.result = <<c, "/", APPLICABILITY_CATEGORIES[c][i]>>
    /\ \A c \in DOMAIN APPLICABILITY_CATEGORIES :
         (Len(response) >= 2 /\ response[1] = c /\ response[2] = "/") =>
           LET types == APPLICABILITY_CATEGORIES[c]
               subtype == Strip(SubSeq(response, 3, Len(response)))
               same == {i \in 1..Len(types) :
                          /\ Len(subtype) = 1
                          /\ LowerToken(subtype[1]) = LowerToken(types[i])}
           IN /\ \A i \in same : last.result = <<c, "/", types[i]>>
              /\ same = {} => last.result = <<c, "/", types[1]>>

\* The response names a subtype of the category in upper case.
C19_Witness ==
  /\ last.op = "_classify_applicability"
  /\ last.response = <<"obligation", "/", "RÈGLEMENT">>
  /\ last.result = <<"obligation", "/", "Règlement">>

\* A response that is not category/subtype with a category of the vocabulary.
Unparseable(generated) ==
  LET response == Strip(StripChars(Strip(generated), Quotes))
      slashes == {i \in 1..Len(response) : response[i] = "/"}
  IN \/ slashes = {}
     \/ LET before == Strip(Lower(SubSeq(response, 1, Min(slashes) - 1)))
        IN \A c \in DOMAIN APPLICABILITY_CATEGORIES : before # <<c>>

\* The response holds the word, in any case, alone or inside a longer word.
HasWord(generated, word) ==
  \E i \in 1..Len(generated) :
    \/ LowerToken(generated[i]) = word
    \/ <<word, LowerToken(generated[i])>> \in Embedded

\* C20 (as stated): obligation/Règlement is stored as it is; an unparseable
\* response holding the word jurisprudence anywhere is stored as
\* jurisprudence/Arrêt; a response with no category in it is stored as
\* information/Avis.
C20_Fallback ==
  last.op = "_classify_applicability" =>
    /\ last.response = <<"obligation", "/", "Règlement">> =>
         last.result = <<"obligation", "/", "Règlement">>
    /\ (Unparseable(last.response) /\ HasWord(last.response, "jurisprudence"))
         => last.result = <<"jurisprudence", "/", "Arrêt">>
    /\ (Unparseable(last.response)
          /\ \A c \in DOMAIN APPLICABILITY_CATEGORIES :
               ~HasWord(last.response, c))
         => last.result = <<"information", "/", "Avis">>

\* C20 (amended): as stated, but an unparseable response holding the word
\* obligation is stored as obligation/Loi whether or not it holds the word
\* jurisprudence too, and jurisprudence/Arrêt is for those without obligation.
C20_Amended ==
  last.op = "_classify_applicability" =>
    /\ last.response = <<"obligation", "/", "Règlement">> =>
         last.result = <<"obligation", "/", "Règlement">>
    /\ (Unparseable(last.response) /\ HasWord(last.response, "obligation"))
         => last.result = <<"obligation", "/", "Loi">>
    /\ (Unparseable(last.response) /\ HasWord(last.response, "jurisprudence")
          /\ ~HasWord(last.response, "obligation"))
         => last.result = <<"jurisprudence", "/", "Arrêt">>
    /\ (Unparseable(last.response)
          /\ \A c \in DOMAIN APPLICABILITY_CATEGORIES :
               ~HasWord(last.response, c))
         => last.result = <<"information", "/", "Avis">>

\* An unparseable response holds obligation and jurisprudence.
C20_Witness ==
  /\ last.op = "_classify_applicability"
  /\ Unparseable(last.response)
  /\ HasWord(last.response, "jurisprudence")
  /\ HasWord(last.response, "obligation")
  /\ last.result = <<"obligation", "/", "Loi">>

EnrichmentFields == {"summary", "applicability", "themes", "keywords"}

\* C17: after process_document returns, the record is processed with the
\* summary, the applicability and the themes of this call and no keywords,
\* all from the one update, or its summary, applicability, themes and
\* keywords are what they were before the call.
C17_AllOrNothing ==
  (last.op = "process_document" /\ exists(last.pre, last.id)) =>
    LET old == Row(last.pre, last.id)
        new == Row(store, last.id)
    IN /\ last.returned =>
            /\ new["processing_status"] = "processed"
            /\ new["summary"] =
                 _escape_newlines(_generate_one_shot_summary(
                                    last.llm.summary.text))
            /\ new["applicability"] =
                 _classify_applicability(last.llm.applicability.text)
            /\ new["themes"] = Join(_classify_themes(last.llm.themes))
            /\ new["keywords"] = <<>>
       /\ ~last.returned =>
            \A f \in EnrichmentFields : new[f] = old[f]

\* A record that had a summary, themes and keywords is processed again.
C17_Witness ==
  /\ last.op = "process_document"
  /\ last.returned
  /\ Row(last.pre, last.id)["keywords"] # <<>>
  /\ Row(last.pre, last.id)["summary"] # <<>>
  /\ Row(store, last.id)["keywords"] = <<>>
  /\ Row(store, last.id)["themes"] = <<"T1", ", ", "T2">>

\* The content file of the record is missing or cannot be read.
ContentUnreadable ==
  LET path == Row(last.pre, last.id)["content"]
  IN path \notin DOMAIN disk \/ ~disk[path].readable

\* The content file of the record is read and holds text.
ContentRead ==
  LET path == Row(last.pre, last.id)["content"]
  IN path \in DOMAIN disk /\ disk[path].readable /\ disk[path].text # <<>>

\* process_document was called on a stored record with a content path.
ProcessedWithPath ==
  /\ last.op = "process_document"
  /\ exists(last.pre, last.id)
  /\ Row(last.pre, last.id)["content"] # <<>>

C21_ThemesInTaxonomy ==
  last.op = "_classify_themes" =>
    LET output == last.output IN
    /\ Len(last.themes) \in 1..3
    /\ \A i \in 1..Len(last.themes) : last.themes[i] \in all_themes
    /\ (~output.raises /\ output.json /\ output.kind = "list") =>
         \/ last.themes = <<"Articles & Guides">>
         \/ \A i \in 1..Len(last.themes) : last.themes[i] = output.items[i]
    /\ (output.raises \/ ~output.json \/ output.kind = "string"
          \/ (output.kind = "list" /\ output.items = <<>>)) =>
         last.themes = <<"Articles & Guides">>

\* C24: process_document called with an id that is not stored, or whose
\* record has an empty content path, returns false and leaves the store as it
\* was: no status, no field and no updated_at changes.
C24_NoRecordNoChange ==
  (/\ last.op = "process_document"
   /\ \/ ~exists(last.pre, last.id)
      \/ Row(last.pre, last.id)["content"] = <<>>)
    => (~last.returned /\ ~last.writes /\ store = last.pre)

\* process_document was called on a stored pending record that has no content
\* path, next to another stored record.
C24_Witness ==
  /\ last.op = "process_document"
  /\ exists(last.pre, last.id)
  /\ Row(last.pre, last.id)["content"] = <<>>
  /\ Row(last.pre, last.id)["processing_status"] = "pending"
  /\ Len(last.pre) = 2
  /\ ~last.returned
  /\ store = last.pre
\* The selected documents whose status is processed in the file.
BecameProcessed(file, pending_docs) ==
  {i \in 1..Len(pending_docs) :
     Row(file, pending_docs[i]["id"])["processing_status"] = "processed"}

\* C22: process_batch(n) calls process_document once for each of the at most
\* n documents selected, in selection order, whatever the earlier ones did;
\* processed + failed is the number selected, skipped is 0, and processed is
\* the number of selected documents whose status became processed.
C22_BatchCounts ==
  last.op = "process_batch" =>
    LET selected == get_pending_for_processing(last.pre, disk,
                                               last.batch_size)
    IN /\ last.pending_docs = selected
       /\ Len(selected) <= last.batch_size
       /\ last.attempted = [i \in 1..Len(selected) |-> selected[i]["id"]]
       /\ \A i, j \in 1..Len(selected) :
            selected[i]["id"] = selected[j]["id"] => i = j
       /\ last.stats.processed + last.stats.failed = Len(selected)
       /\ last.stats.skipped = 0
       /\ last.stats.processed = Cardinality(BecameProcessed(store, selected))

\* A batch of three documents in which the second one failed and the third
\* one was processed after it.
C22_Witness ==
  /\ last.op = "process_batch"
  /\ Len(last.pending_docs) = 3
  /\ last.attempted = <<"a", "b", "c">>
  /\ last.stats = [processed |-> 2, failed |-> 1, skipped |-> 0]
  /\ Row(store, "a")["processing_status"] = "processed"
  /\ Row(store, "b")["processing_status"] # "processed"
  /\ Row(store, "c")["processing_status"] = "processed"
\* C29: when process_batch(n), n >= 1, is called again and again and nothing
\* is ingested or deleted, every document that is pending with an existing
\* content file eventually leaves the pending status: from some call on no
\* document is eligible for processing any more.
C29_EligibleDrains ==
  <>[](get_pending_for_processing(store, disk, Len(store)) = <<>>)
\* Every row of the file before the call is still there, as it was, but for
\* the row with the id the call was made for.
RowsKept(before, after, target) ==
  \A i \in 1..Len(before) :
    /\ i <= Len(after)
    /\ after[i]["id"] = before[i]["id"]
    /\ before[i]["id"] # target => after[i] = before[i]

\* C25: create, bulk_create and update_document (which the enrichment writes
\* through) never remove a stored row and never change a row other than the
\* one they are called for, also when a read of the file fails partway and
\* returns only the rows before the failure.
C25_RowsKept ==
  last.op \in {"create", "bulk_create", "update_document"} =>
    RowsKept(last.pre, store, last.id)

\* The same with every read of the file complete.
C25_RowsKeptCompleteReads ==
  (/\ last.op \in {"create", "bulk_create", "update_document"}
   /\ last.read = Len(last.pre))
    => RowsKept(last.pre, store, last.id)
\* The ids of the rows a call of the race returned as created.
CreatedIds(w) ==
  {last.acc[w].created_docs[i]["id"] :
     i \in 1..Len(last.acc[w].created_docs)}

\* C28: when two bulk_create calls overlap, the store holds, after a rename,
\* what the last rename wrote; and when both calls read the store before
\* either renamed, the rows added by the call that renamed first are absent
\* after the second rename, although that call returned them as created.
C28_LastRenameWins ==
  (last.op = "bulk_create" /\ last.renames # <<>>) =>
    LET winner == last.renames[Len(last.renames)]
        loser == last.renames[1]
    IN /\ store = writerows(last.all_docs[winner])
       /\ (/\ Len(last.renames) = 2
           /\ last.read_before_rename[winner]
           /\ last.read_before_rename[loser]) =>
            /\ last.result[loser][1] = Cardinality(CreatedIds(loser))
            /\ last.result[loser][1] > 0
            /\ \A id \in CreatedIds(loser) \ CreatedIds(winner) :
                 ~exists(store, id)

\* Both calls read before either renamed, both returned a positive created
\* count for ids the other did not create, and the rows of the call that
\* renamed first are not in the store.
C28_Witness ==
  /\ last.op = "bulk_create"
  /\ Len(last.renames) = 2
  /\ last.read_before_rename["1"] /\ last.read_before_rename["2"]
  /\ last.renames = <<"1", "2">>
  /\ CreatedIds("1") = {"a"} /\ CreatedIds("2") = {"c"}
  /\ last.result["1"] = <<1, 0>>
  /\ ~exists(store, "a")
  /\ exists(store, "c")
  /\ exists(store, "e")
\* The calendar day a date argument stands for.
DayOf(argument, default) ==
  IF argument.kind = "None" THEN default
  ELSE IF argument.kind = "str" THEN argument.day
  ELSE argument.value.day

\* The days first..final in ascending order.
DaysFromTo(first, final) == [i \in 1..(final - first + 1) |-> first + i - 1]

\* The days of the call were scraped once each in ascending order and the
\* list returned is their results in that order.
EveryDayOnce ==
  LET day_from == DayOf(last.date_from, DatetimeNow.day)
      day_to == DayOf(last.date_to, day_from)
      days == IF day_from <= day_to THEN DaysFromTo(day_from, day_to)
              ELSE DaysFromTo(day_to, day_from)
  IN /\ last.scraped = days
     /\ Len(last.all_documents) =
          Cardinality({i \in 1..Len(days) :
                         last.pages[days[i]] = "documents"})
     /\ \A i, j \in 1..Len(last.all_documents) :
          i < j => last.all_documents[i]["id"] < last.all_documents[j]["id"]
     /\ \A i \in 1..Len(days) :
          last.pages[days[i]] = "documents" =>
            \E k \in 1..Len(last.all_documents) :
              last.all_documents[k]["id"] = days[i]

\* C27: scrape_date_range(from, to) scrapes every calendar day of the
\* inclusive range once, in ascending order (the bounds swapped when from is
\* after to), and returns the results in that order; a day whose listing page
\* is unreachable or malformed gives nothing and the later days are scraped.
C27_EveryDayOnce ==
  (/\ last.op = "scrape_date_range"
   /\ last.date_from.kind # "malformed"
   /\ last.date_to.kind # "malformed")
    => EveryDayOnce

\* The same for the calls whose two bounds are 'YYYY-MM-DD' strings.
C27_EveryDayOnceStrings ==
  (/\ last.op = "scrape_date_range"
   /\ last.date_from.kind = "str"
   /\ last.date_to.kind = "str")
    => EveryDayOnce
\* The call ingested entries (an email or a listing page).
Ingested == last.op \in {"scrape_jorf", "scrape_eurlex"}

\* The entries of the call whose document was handed to bulk_create.
Handed == {last.documents[k].entry : k \in 1..Len(last.documents)}

\* The content file the stored row of an id points to, in a set of files:
\* what it holds, or None when the row names no file that is there.
StoredContent(file, files, id) ==
  LET path == Row(file, id)["content"]
  IN IF path # <<>> /\ path \in DOMAIN files THEN files[path] ELSE None

\* C23: an email with two entries of the same id, not stored before, gives
\* created = 1 and skipped = 1, one stored row of that id, and the content
\* path of that row names a file that is there and holds the text scraped
\* from a page of the entries or the placeholder text.
C23_OneRowWithContent ==
  (/\ last.op = "scrape_jorf"
   /\ Len(last.entries) = 2
   /\ last.entries[1].id = last.entries[2].id
   /\ ~exists(last.pre, last.entries[1].id))
    => /\ last.created = 1
       /\ last.skipped = 1
       /\ Cardinality(RowsWithId(store, last.entries[1].id)) = 1
       /\ StoredContent(store, disk, last.entries[1].id) \in
            {ReadableFile(NotFoundText)} \cup
            {ReadableFile(PageText(last.entries[i].url)) : i \in 1..2}

\* C26: when the fetch of the page of an entry fails, its document is not
\* among the records handed to bulk_create, the call saves no content file
\* with an error text for it, and the other entries are still ingested.
C26_FailedFetchDropped ==
  Ingested =>
    \A i \in 1..Len(last.entries) :
      LET entry == last.entries[i]
          directory == IF last.op = "scrape_jorf" THEN "jorf" ELSE "eurlex_l"
          path == filepath(directory, entry.id)
      IN IF entry.fetch = "raises"
         THEN /\ i \notin Handed
              /\ (path \in DOMAIN disk /\ disk[path].text = ErrorText) =>
                   (path \in DOMAIN last.pre_disk
                      /\ last.pre_disk[path] = disk[path])
         ELSE \/ i \in Handed
              \/ \E j \in 1..(i - 1) : last.entries[j].id = entry.id

\* C30: ingesting an entry whose id is already stored changes neither the
\* stored row nor the content file the stored row points to.
C30_StoredUntouched ==
  Ingested =>
    \A i \in 1..Len(last.entries) :
      LET id == last.entries[i].id
      IN exists(last.pre, id) =>
           /\ Row(store, id) = Row(last.pre, id)
           /\ StoredContent(store, disk, id) =
                StoredContent(last.pre, last.pre_disk, id)
====
